---- MODULE Spec2Model ----
(***************************************************************************)
(* Model of the CanAgent task scheduler (task_parser.py, main.py), of the  *)
(* record reconcilers (conference_tracker.py, research_article_parser.py)  *)
(* and of the task parser's type inference (task_parser.py).               *)
(*                                                                         *)
(* Dates.  The code keeps dates as "%Y-%m-%d" strings in the store and     *)
(* compares datetime objects.  A calendar day is modelled by its day       *)
(* number; a stored date property is a record [k, d]: k = "none" when the  *)
(* property is unset, k = "date" for a well-formed "%Y-%m-%d" string of    *)
(* day d, k = "bad" for a string strptime rejects.  A pass is taken to run  *)
(* within one calendar day: the clock moves between passes only.           *)
(***************************************************************************)
EXTENDS Integers, Sequences, FiniteSets, TLC

\* ---------------------------------------------------------------- bounds
NumTasks == 2
MaxPasses == 2
Day0 == 1
MaxRecords == 2
MaxWords == 2
MaxTokens == 4
Year0 == 2025
MaxCalls == 2
MaxPages == 3

\* ------------------------------------------------------------- constants
DailyDays == 1
WeeklyDays == 7
MonthlyDays == 30
QuarterlyDays == 90
YearlyDays == 365
RecentDays == 30
DefaultRemaining == 1000
DefaultResetSeconds == 60
ErrorStatus == 400

Statuses == {"Not Started", "In Progress", "Complete", "Error"}
Frequencies == {"Once", "Daily", "Weekly", "Monthly", "Quarterly", "Yearly"}
SupportedTypes == {"conference", "research", "project", "stakeholder"}
TaskTypes == SupportedTypes \cup {"unknown"}
InitTypes == {"research", "unknown"}
NoPage == 0
NoSelect == ""
WaitDays == {0, DailyDays, WeeklyDays, MonthlyDays, QuarterlyDays, YearlyDays}

NoDate == [k |-> "none", d |-> 0]
BadDate == [k |-> "bad", d |-> 0]
IsoDate(day) == [k |-> "date", d |-> day]

\* --------------------------------------------------------------- helpers
\* Python truthiness of the optional values: an unset select, an unset date
\* and a missing result page id are None, hence falsy.
Truthy(v) == v # NoSelect
DateTruthy(v) == v.k # "none"
PageTruthy(v) == v # NoPage

\* datetime.strftime("%Y-%m-%d"): the day, the time of day dropped.
Strftime(day) == IsoDate(day)
\* datetime.strptime(s, "%Y-%m-%d") succeeds only on a well-formed string.
StrptimeOk(s) == s.k = "date"
Strptime(s) == s.d

\* TaskParser.parse_todo_item: the task dict built from a page.
ParseTodoItem(id, page) ==
    [id |-> id,
     type |-> page["Type"],
     status |-> IF Truthy(page["Status"]) THEN page["Status"] ELSE "Not Started",
     last_run |-> page["Last Run"],
     next_run |-> page["Next Run"],
     frequency |-> IF Truthy(page["Frequency"]) THEN page["Frequency"] ELSE "Once",
     result_page |-> page["Result Page"]]

\* TaskScheduler.get_tasks_from_database: every page, in database order.
GetTasksFromDatabase(db) == [i \in 1..Len(db) |-> ParseTodoItem(i, db[i])]

\* Variant: a next run that falls today is not yet due (< for <=).
RECURSIVE GetDueLoop_StrictlyBefore(_, _, _, _)
GetDueLoop_StrictlyBefore(tasks, i, today, due_tasks) ==
    IF i > Len(tasks) THEN due_tasks
    ELSE LET task == tasks[i]
             include == /\ task.status # "Complete"
                        /\ \/ ~DateTruthy(task.next_run)
                           \/ ~StrptimeOk(task.next_run)
                           \/ Strptime(task.next_run) < today
         IN GetDueLoop_StrictlyBefore(tasks, i + 1, today,
                IF include THEN Append(due_tasks, task) ELSE due_tasks)

\* Variant: tasks In Progress are skipped as the Complete ones are.
RECURSIVE GetDueLoop_SkipInProgress(_, _, _, _)
GetDueLoop_SkipInProgress(tasks, i, today, due_tasks) ==
    IF i > Len(tasks) THEN due_tasks
    ELSE LET task == tasks[i]
             include == /\ task.status \notin {"Complete", "In Progress"}
                        /\ \/ ~DateTruthy(task.next_run)
                           \/ ~StrptimeOk(task.next_run)
                           \/ Strptime(task.next_run) <= today
         IN GetDueLoop_SkipInProgress(tasks, i + 1, today,
                IF include THEN Append(due_tasks, task) ELSE due_tasks)

\* Variant: tasks that ended in Error are skipped as the Complete ones are.
RECURSIVE GetDueLoop_SkipError(_, _, _, _)
GetDueLoop_SkipError(tasks, i, today, due_tasks) ==
    IF i > Len(tasks) THEN due_tasks
    ELSE LET task == tasks[i]
             include == /\ task.status \notin {"Complete", "Error"}
                        /\ \/ ~DateTruthy(task.next_run)
                           \/ ~StrptimeOk(task.next_run)
                           \/ Strptime(task.next_run) <= today
         IN GetDueLoop_SkipError(tasks, i + 1, today,
                IF include THEN Append(due_tasks, task) ELSE due_tasks)

\* TaskScheduler.get_due_tasks: the loop over tasks, with its two continue
\* branches and the try/except around strptime.
RECURSIVE GetDueLoop(_, _, _, _)
GetDueLoop(tasks, i, today, due_tasks) ==
    IF i > Len(tasks) THEN due_tasks
    ELSE LET task == tasks[i] IN
         IF task.status = "Complete"
         THEN GetDueLoop(tasks, i + 1, today, due_tasks)
         ELSE IF ~DateTruthy(task.next_run)
         THEN GetDueLoop(tasks, i + 1, today, Append(due_tasks, task))
         ELSE IF StrptimeOk(task.next_run)
         THEN IF Strptime(task.next_run) <= today
              THEN GetDueLoop(tasks, i + 1, today, Append(due_tasks, task))
              ELSE GetDueLoop(tasks, i + 1, today, due_tasks)
         ELSE GetDueLoop(tasks, i + 1, today, Append(due_tasks, task))

GetDueTasks(tasks, today) == GetDueLoop(tasks, 1, today, <<>>)

\* Variant: a Once task is given the Daily offset.
FrequencyOffset_OnceNextDay(frequency) ==
    CASE frequency = "Daily" -> DailyDays
      [] frequency = "Weekly" -> WeeklyDays
      [] frequency = "Monthly" -> MonthlyDays
      [] frequency = "Quarterly" -> QuarterlyDays
      [] frequency = "Yearly" -> YearlyDays
      [] OTHER -> DailyDays

\* The frequency ladder of update_task_status: days added to now, 0 when no
\* branch matches (next_run stays None).
FrequencyOffset(frequency) ==
    CASE frequency = "Daily" -> DailyDays
      [] frequency = "Weekly" -> WeeklyDays
      [] frequency = "Monthly" -> MonthlyDays
      [] frequency = "Quarterly" -> QuarterlyDays
      [] frequency = "Yearly" -> YearlyDays
      [] OTHER -> 0

\* Variant: "and" for "or" in the guard, no next run once Complete.
ComputeNextRun_NotOnComplete(task, status, today) ==
    IF status # "Complete" /\ task.frequency # "Once"
    THEN Strftime(today + FrequencyOffset(task.frequency))
    ELSE NoDate

\* next_run as update_task_status computes it (NoDate stands for None).
ComputeNextRun(task, status, today) ==
    IF status # "Complete" \/ task.frequency # "Once"
    THEN IF FrequencyOffset(task.frequency) > 0
         THEN Strftime(today + FrequencyOffset(task.frequency))
         ELSE NoDate
    ELSE NoDate

\* Variant: "Next Run" is sent always, None included.
UpdateProperties_ClearsNextRun(task, status, result_page_id, today) ==
    LET next_run == ComputeNextRun(task, status, today)
        keys == {"Status", "Last Run", "Next Run"}
                  \cup (IF PageTruthy(result_page_id) THEN {"Result Page"} ELSE {})
    IN [key \in keys |->
          CASE key = "Status" -> status
            [] key = "Last Run" -> Strftime(today)
            [] key = "Next Run" -> next_run
            [] key = "Result Page" -> result_page_id]

\* Variant: "Last Run" is sent only with Complete.
UpdateProperties_LastRunOnComplete(task, status, result_page_id, today) ==
    LET next_run == ComputeNextRun(task, status, today)
        keys == {"Status"}
                  \cup (IF status = "Complete" THEN {"Last Run"} ELSE {})
                  \cup (IF DateTruthy(next_run) THEN {"Next Run"} ELSE {})
                  \cup (IF PageTruthy(result_page_id) THEN {"Result Page"} ELSE {})
    IN [key \in keys |->
          CASE key = "Status" -> status
            [] key = "Last Run" -> Strftime(today)
            [] key = "Next Run" -> next_run
            [] key = "Result Page" -> result_page_id]

\* Variant: "Result Page" is sent always, None included.
UpdateProperties_AlwaysResultPage(task, status, result_page_id, today) ==
    LET next_run == ComputeNextRun(task, status, today)
        keys == {"Status", "Last Run", "Result Page"}
                  \cup (IF DateTruthy(next_run) THEN {"Next Run"} ELSE {})
    IN [key \in keys |->
          CASE key = "Status" -> status
            [] key = "Last Run" -> Strftime(today)
            [] key = "Next Run" -> next_run
            [] key = "Result Page" -> result_page_id]

\* The properties dict update_task_status sends to update_page.
UpdateProperties(task, status, result_page_id, today) ==
    LET next_run == ComputeNextRun(task, status, today)
        keys == {"Status", "Last Run"}
                  \cup (IF DateTruthy(next_run) THEN {"Next Run"} ELSE {})
                  \cup (IF PageTruthy(result_page_id) THEN {"Result Page"} ELSE {})
    IN [key \in keys |->
          CASE key = "Status" -> status
            [] key = "Last Run" -> Strftime(today)
            [] key = "Next Run" -> next_run
            [] key = "Result Page" -> result_page_id]

\* update_page: a PATCH, the properties sent replace the stored ones and the
\* others are kept.
UpdatePage(page, properties) ==
    [key \in DOMAIN page |->
        IF key \in DOMAIN properties THEN properties[key] ELSE page[key]]

\* ----------------------------------------------------------------- state
VARIABLES
    db,        \* the todo database: sequence of pages
    now,       \* the current day
    pc,        \* "idle", "loop" (in run's for loop), "exec" (executor running), "sleep"
    tasks,     \* run(): the parsed snapshot of the pass
    due,       \* run(): due_tasks
    idx,       \* run(): position in due_tasks
    results,   \* run(): results
    log,       \* self.log
    upd,       \* the last update_task_status call of the pass, <<>> when none:
               \* <<[id, task (as read), status, result_page_id, properties (as sent)]>>
    passes,    \* passes started
    created,   \* result pages the store has created
    \* _remove_duplicates (conference_tracker.py, research_article_parser.py)
    reconciler, \* "conference" or "article"; "none" while the scheduler is modelled
    records,    \* the list passed in
    unique,     \* the dict, in insertion order: sequence of [key, record]
    pos,        \* position of the for loop in records
    merged,     \* FALSE in the loop, TRUE once the list of values is returned
    remerge,    \* TRUE when the list passed in is the list an earlier call returned
    \* TaskParser (task_parser.py)
    task_name,  \* the name of the todo item
    task_type,  \* the type inferred from it, NoSelect until it is inferred
    params_str, \* the Parameters text of the todo item
    parameters, \* what _parse_parameters returned or raised, Unset before
    \* date handling of the collectors (conference_tracker.py,
    \* research_article_parser.py)
    collector,    \* "conference" or "article"; "none" while another part is modelled
    date_str,     \* the date text of a listing
    timeframe,    \* the timeframe of the search
    clock,        \* datetime.now()
    parsed_date,  \* what _parse_date returned, Unset before
    conf_dates,   \* what _parse_date_range returned, Unset before
    in_timeframe, \* what _is_in_timeframe returned, Unset before
    \* NotionAPI and NotionHelper (notion_integration.py)
    api,          \* the NotionAPI object, the clock and the calls made through it
    pager         \* get_all_database_items: its locals and the answers it got

svars == <<db, now, pc, tasks, due, idx, results, log, upd, passes, created>>
mvars == <<reconciler, records, unique, pos, merged, remerge>>
pvars == <<task_name, task_type>>
qvars == <<params_str, parameters>>
dvars == <<collector, date_str, timeframe, clock, parsed_date, conf_dates, in_timeframe>>
avars == <<api, pager>>
vars == <<db, now, pc, tasks, due, idx, results, log, upd, passes, created,
          reconciler, records, unique, pos, merged, remerge,
          task_name, task_type, params_str, parameters,
          collector, date_str, timeframe, clock, parsed_date, conf_dates,
          in_timeframe, api, pager>>

\* A todo item name: None, or a text given by its characters.
NoName == [k |-> "none", s |-> <<>>]
Text(chars) == [k |-> "text", s |-> chars]

ParserIdle ==
    /\ task_name = NoName
    /\ task_type = NoSelect

\* A result that has not been computed yet.
Unset == [k |-> "unset", v |-> 0]

ParametersIdle ==
    /\ params_str = NoName
    /\ parameters = Unset

\* The clock before it is read.
NoClock == [y |-> 0, m |-> 0, d |-> 0, tod |-> 0]

DatesIdle ==
    /\ collector = "none"
    /\ date_str = <<>>
    /\ timeframe = "all"
    /\ clock = NoClock
    /\ parsed_date = Unset
    /\ conf_dates = Unset
    /\ in_timeframe = Unset

\* No NotionAPI object and no call of get_all_database_items.
NoCall ==
    [method |-> "", rate_limit_remaining |-> 0, rate_limit_reset |-> 0, time |-> 0,
     sleep_time |-> 0, sent |-> FALSE, failed |-> FALSE, status_code |-> 0,
     result |-> [k |-> "unset", error |-> FALSE, status_code |-> 0,
                 results |-> <<>>, has_more |-> "none", next_cursor |-> ""]]
NoApi ==
    [on |-> FALSE, rate_limit_remaining |-> 0, rate_limit_reset |-> 0, time |-> 0,
     calls |-> 0, wire |-> <<>>, last |-> NoCall]
NoPager ==
    [on |-> FALSE, all_items |-> <<>>, has_more |-> TRUE, start_cursor |-> "",
     fetched |-> <<>>, returned |-> FALSE, raised |-> FALSE]
ApiIdle ==
    /\ api = NoApi
    /\ pager = NoPager
MergeIdle ==
    /\ reconciler = "none"
    /\ records = <<>>
    /\ unique = <<>>
    /\ pos = 1
    /\ merged = FALSE
    /\ remerge = FALSE

InitNextRuns == {NoDate, BadDate, IsoDate(Day0 - 1), IsoDate(Day0 + 1)}

\* The title of the todo items of the lists below.
PageName == Text(<<"A", "I">>)
Page(ty, st, nr, fr, rp) ==
    [key \in {"Name", "Type", "Status", "Last Run", "Next Run", "Frequency", "Result Page"} |->
        CASE key = "Name" -> PageName
          [] key = "Type" -> ty
          [] key = "Status" -> st
          [] key = "Last Run" -> NoDate
          [] key = "Next Run" -> nr
          [] key = "Frequency" -> fr
          [] key = "Result Page" -> rp]

\* A todo list of one task that has not run since its author (re)set it: any
\* frequency and next run, the selects set or unset, with or without the
\* result page of an earlier run.
InitPages ==
    {Page(ty, st, nr, fr, rp) :
        ty \in InitTypes, st \in {NoSelect, "Not Started"},
        nr \in InitNextRuns, fr \in Frequencies \cup {NoSelect},
        rp \in {NoPage, 1}}

\* Todo lists of several tasks are drawn from these pages.
ListPages ==
    {Page("research", "Not Started", NoDate, "Once", NoPage),
     Page("unknown", "Not Started", NoDate, "Daily", NoPage),
     Page("conference", "Not Started", IsoDate(Day0 + 1), "Weekly", NoPage)}

InitDatabases ==
    [1..1 -> InitPages] \cup UNION {[1..n -> ListPages] : n \in 2..NumTasks}

\* A todo item without a title: its Name property holds no text item.
Untitled(page) == [page EXCEPT !["Name"] = NoName]
\* parse_todo_item raises AttributeError on an item that has no title and a
\* Type select with inferred parameters (_parse_parameters splits the name
\* or replaces in it); without a Type the type is "unknown" and nothing is
\* inferred.  The items of the lists have no Parameters text.
ParseRaises(page) == page["Name"] = NoName /\ page["Type"] \in SupportedTypes
Init ==
    /\ db \in InitDatabases
    /\ now = Day0
    /\ pc = "idle"
    /\ tasks = <<>>
    /\ due = <<>>
    /\ idx = 1
    /\ results = <<>>
    /\ log = <<>>
    /\ upd = <<>>
    /\ passes = 0
    /\ created = IF \E i \in DOMAIN db : PageTruthy(db[i]["Result Page"]) THEN 1 ELSE 0
    /\ MergeIdle
    /\ ParserIdle
    /\ ParametersIdle
    /\ DatesIdle
    /\ ApiIdle

\* update_task_status(task_id, status, result_page_id): read the page, build
\* the properties, patch the page.
UpdateTaskStatus(task_id, status, result_page_id) ==
    LET task == ParseTodoItem(task_id, db[task_id])
        properties == UpdateProperties(task, status, result_page_id, now)
    IN /\ db' = [db EXCEPT ![task_id] = UpdatePage(db[task_id], properties)]
       /\ upd' = <<[id |-> task_id, task |-> task, status |-> status,
                    result_page_id |-> result_page_id, properties |-> properties]>>

\* run(), up to the for loop: load the tasks and select the due ones.
StartPass ==
    /\ pc = "idle"
    /\ passes < MaxPasses
    /\ \A i \in DOMAIN db : ~ParseRaises(db[i])
    /\ tasks' = GetTasksFromDatabase(db)
    /\ due' = GetDueTasks(GetTasksFromDatabase(db), now)
    /\ idx' = 1
    /\ results' = <<>>
    /\ pc' = "loop"
    /\ passes' = passes + 1
    /\ UNCHANGED <<db, now, log, upd, created>>
    /\ UNCHANGED <<mvars, pvars, qvars, dvars, avars>>

\* Variant: every due task not yet executed is written In Progress.
BeginTask_MarksAllDue ==
    /\ pc = "loop"
    /\ idx <= Len(due)
    /\ LET InProgress(i) ==
               UpdateProperties(ParseTodoItem(i, db[i]), "In Progress", NoPage, now)
       IN /\ db' = [i \in DOMAIN db |->
                      IF \E j \in idx..Len(due) : due[j].id = i
                      THEN UpdatePage(db[i], InProgress(i)) ELSE db[i]]
          /\ upd' = <<[id |-> due[idx].id,
                       task |-> ParseTodoItem(due[idx].id, db[due[idx].id]),
                       status |-> "In Progress", result_page_id |-> NoPage,
                       properties |-> InProgress(due[idx].id)]>>
    /\ pc' = "exec"
    /\ UNCHANGED <<now, tasks, due, idx, results, log, passes, created>>
    /\ UNCHANGED <<mvars, pvars, qvars, dvars, avars>>

\* Variant: the In Progress write sends the status and the last run only, the
\* next run is left to the write that ends the execution.
BeginTask_NoNextRun ==
    /\ pc = "loop"
    /\ idx <= Len(due)
    /\ LET task == ParseTodoItem(due[idx].id, db[due[idx].id])
           properties == [key \in {"Status", "Last Run"} |->
                             IF key = "Status" THEN "In Progress" ELSE Strftime(now)]
       IN /\ db' = [db EXCEPT ![due[idx].id] = UpdatePage(db[due[idx].id], properties)]
          /\ upd' = <<[id |-> due[idx].id, task |-> task, status |-> "In Progress",
                       result_page_id |-> NoPage, properties |-> properties]>>
    /\ pc' = "exec"
    /\ UNCHANGED <<now, tasks, due, idx, results, log, passes, created>>
    /\ UNCHANGED <<mvars, pvars, qvars, dvars, avars>>

\* execute_task, up to the executor call: the In Progress write.
BeginTask ==
    /\ pc = "loop"
    /\ idx <= Len(due)
    /\ UpdateTaskStatus(due[idx].id, "In Progress", NoPage)
    /\ pc' = "exec"
    /\ UNCHANGED <<now, tasks, due, idx, results, log, passes, created>>
    /\ UNCHANGED <<mvars, pvars, qvars, dvars, avars>>

LogEntry(task, result) == [task |-> task.id, type |-> task.type, result |-> result.status]

\* execute_task, the executor returned: result_page_id is the id of the page
\* _create_result_page created, or None when create_page answered with an
\* error.  The Complete write, the result, the log entry.
TaskReturns(page_created) ==
    /\ pc = "exec"
    /\ due[idx].type \in SupportedTypes
    /\ LET result_page_id == IF page_created THEN created + 1 ELSE NoPage
           result == [status |-> "Complete",
                      message |-> "Successfully executed task",
                      task_id |-> due[idx].id,
                      result_page_id |-> result_page_id]
       IN /\ UpdateTaskStatus(due[idx].id, "Complete", result_page_id)
          /\ results' = Append(results, result)
          /\ log' = Append(log, LogEntry(due[idx], result))
    /\ created' = IF page_created THEN created + 1 ELSE created
    /\ idx' = idx + 1
    /\ pc' = "loop"
    /\ UNCHANGED <<now, tasks, due, passes>>
    /\ UNCHANGED <<mvars, pvars, qvars, dvars, avars>>

\* The result dict of the except branch of execute_task.
ErrorResult(task) ==
    [status |-> "Error", message |-> "Error executing task",
     task_id |-> task.id, result_page_id |-> NoPage]

\* Variant: the failure ends the for loop, as the except branch of run()
\* does, and the results so far are replaced by the one error result.
TaskRaises_AbortsBatch ==
    /\ pc = "exec"
    /\ UpdateTaskStatus(due[idx].id, "Error", NoPage)
    /\ results' = <<ErrorResult(due[idx])>>
    /\ log' = Append(log, LogEntry(due[idx], ErrorResult(due[idx])))
    /\ idx' = Len(due) + 1
    /\ pc' = "loop"
    /\ UNCHANGED <<now, tasks, due, passes, created>>
    /\ UNCHANGED <<mvars, pvars, qvars, dvars, avars>>

\* Variant: after a first failure the executor is started once more.
TaskRaises_RetriesOnce ==
    /\ pc = "exec"
    /\ UpdateTaskStatus(due[idx].id, "Error", NoPage)
    /\ IF upd[1].status = "In Progress"
       THEN /\ pc' = "exec"
            /\ UNCHANGED <<idx, results, log>>
       ELSE /\ results' = Append(results, ErrorResult(due[idx]))
            /\ log' = Append(log, LogEntry(due[idx], ErrorResult(due[idx])))
            /\ idx' = idx + 1
            /\ pc' = "loop"
    /\ UNCHANGED <<now, tasks, due, passes, created>>
    /\ UNCHANGED <<mvars, pvars, qvars, dvars, avars>>

\* Variant: the except branch returns its result without the Error write.
TaskRaises_NoErrorWrite ==
    /\ pc = "exec"
    /\ results' = Append(results, ErrorResult(due[idx]))
    /\ log' = Append(log, LogEntry(due[idx], ErrorResult(due[idx])))
    /\ idx' = idx + 1
    /\ pc' = "loop"
    /\ UNCHANGED <<db, upd, now, tasks, due, passes, created>>
    /\ UNCHANGED <<mvars, pvars, qvars, dvars, avars>>

\* execute_task, the executor raised (always so for an unsupported type):
\* the Error write, the result, the log entry.
TaskRaises ==
    /\ pc = "exec"
    /\ UpdateTaskStatus(due[idx].id, "Error", NoPage)
    /\ LET result == ErrorResult(due[idx])
       IN /\ results' = Append(results, result)
          /\ log' = Append(log, LogEntry(due[idx], result))
    /\ idx' = idx + 1
    /\ pc' = "loop"
    /\ UNCHANGED <<now, tasks, due, passes, created>>
    /\ UNCHANGED <<mvars, pvars, qvars, dvars, avars>>

\* run() returns results.
EndPass ==
    /\ pc = "loop"
    /\ idx > Len(due)
    /\ pc' = "sleep"
    /\ UNCHANGED <<db, now, tasks, due, idx, results, log, upd, passes, created>>
    /\ UNCHANGED <<mvars, pvars, qvars, dvars, avars>>

\* The process is stopped while an executor runs (KeyboardInterrupt and
\* SystemExit pass "except Exception"); the next process starts with an
\* empty log.
Stop ==
    /\ pc = "exec"
    /\ pc' = "sleep"
    /\ log' = <<>>
    /\ UNCHANGED <<db, now, tasks, due, idx, results, upd, passes, created>>
    /\ UNCHANGED <<mvars, pvars, qvars, dvars, avars>>

\* Time between two passes.
Wait(days) ==
    /\ pc = "sleep"
    /\ passes < MaxPasses
    /\ now' = now + days
    /\ pc' = "idle"
    /\ tasks' = <<>>
    /\ due' = <<>>
    /\ idx' = 1
    /\ results' = <<>>
    /\ upd' = <<>>
    /\ UNCHANGED <<db, log, passes, created>>
    /\ UNCHANGED <<mvars, pvars, qvars, dvars, avars>>

Next ==
    \/ StartPass
    \/ BeginTask
    \/ \E page_created \in BOOLEAN : TaskReturns(page_created)
    \/ TaskRaises
    \/ EndPass
    \/ Stop
    \/ \E days \in WaitDays : Wait(days)

Spec == Init /\ [][Next]_vars

\* ------------------------------------------ run() with untitled items
\* The except branch of run(): get_tasks_from_database raised while it
\* parsed the items, no task was selected; the results are the one error
\* result, without a task, and the log has an entry for it.
SystemTask == 0
SystemErrorResult ==
    [status |-> "Error", message |-> "Error running agent system",
     task_id |-> SystemTask, result_page_id |-> NoPage]
PassRaises ==
    /\ pc = "idle"
    /\ passes < MaxPasses
    /\ \E i \in DOMAIN db : ParseRaises(db[i])
    /\ tasks' = <<>>
    /\ due' = <<>>
    /\ idx' = 1
    /\ results' = <<SystemErrorResult>>
    /\ log' = Append(log, [task |-> SystemTask, type |-> "system",
                           result |-> SystemErrorResult.status])
    /\ pc' = "sleep"
    /\ passes' = passes + 1
    /\ UNCHANGED <<db, now, upd, created>>
    /\ UNCHANGED <<mvars, pvars, qvars, dvars, avars>>
\* Todo lists in which an item may have no title.
RunPages == ListPages \cup {Untitled(page) : page \in ListPages}
InitRun ==
    /\ db \in UNION {[1..n -> RunPages] : n \in 1..NumTasks}
    /\ now = Day0
    /\ pc = "idle"
    /\ tasks = <<>>
    /\ due = <<>>
    /\ idx = 1
    /\ results = <<>>
    /\ log = <<>>
    /\ upd = <<>>
    /\ passes = 0
    /\ created = 0
    /\ MergeIdle
    /\ ParserIdle
    /\ ParametersIdle
    /\ DatesIdle
    /\ ApiIdle
NextRun ==
    \/ Next
    \/ PassRaises
SpecRun == InitRun /\ [][NextRun]_vars

\* ------------------------------------------------------------ reconcilers
\* Text values: NoText is None, "" the empty string.
NoText == "None"
Lower(text) ==
    CASE text = "ICML" -> "icml"
      [] text = "GAN" -> "gan"
      [] OTHER -> text

ConferenceNames == {"icml", "ICML"}
ArticleTitles == {"", "gan", "GAN"}
RecordDates == {NoDate, IsoDate(Day0), IsoDate(Day0 + 1)}
Topics == {"A", "B"}

\* The conference dicts the three searches build.
Conference(name, start, deadline, location, topic) ==
    [name |-> name, url |-> "", start_date |-> start, end_date |-> start,
     location |-> location, submission_deadline |-> deadline,
     source |-> "WikiCFP", topics |-> {topic}]

Conferences ==
    {Conference(name, start, deadline, location, topic) :
        name \in ConferenceNames, start \in RecordDates,
        deadline \in {NoDate, IsoDate(Day0)}, location \in {"", "Virtual"},
        topic \in Topics}

\* The article dict _search_arxiv builds: the summary is the text of the
\* element or "", the publication is "arXiv".
Article(title, published, summary, topic) ==
    [title |-> title, url |-> "", authors |-> <<>>, publication_date |-> published,
     summary |-> summary, source |-> "arXiv", topics |-> {topic},
     publication |-> "arXiv"]

\* The article dict _search_semantic_scholar builds: the abstract may be
\* null, the venue is empty here, the date is the first day of the year.
Paper(title, published, abstract, topic) ==
    [title |-> title, url |-> "", authors |-> <<>>, publication_date |-> published,
     summary |-> abstract, source |-> "Semantic Scholar", topics |-> {topic},
     publication |-> ""]

Articles ==
    {Article(title, published, summary, topic) :
        title \in ArticleTitles, published \in RecordDates,
        summary \in {"", "abstract"}, topic \in Topics}
    \cup
    {Paper(title, published, abstract, topic) :
        title \in ArticleTitles, published \in {NoDate, IsoDate(Day0)},
        abstract \in {NoText, "abstract"}, topic \in Topics}

\* key of _remove_duplicates: f"{conf['name']}_{conf.get('start_date', '')}"
\* for a conference, the lower-cased title for an article.
\* Variant: the conference key is the name alone.
ConferenceKey_NameOnly(conf) == <<conf.name, NoDate>>

ConferenceKey(conf) == <<conf.name, conf.start_date>>
ArticleKey(article) == Lower(article.title)

\* ConferenceTracker._is_more_complete: values that are not None.
ConferenceCount(conf) ==
    (IF conf.name # NoText THEN 1 ELSE 0)
    + (IF conf.url # NoText THEN 1 ELSE 0)
    + (IF conf.start_date # NoDate THEN 1 ELSE 0)
    + (IF conf.end_date # NoDate THEN 1 ELSE 0)
    + (IF conf.location # NoText THEN 1 ELSE 0)
    + (IF conf.submission_deadline # NoDate THEN 1 ELSE 0)
    + (IF conf.source # NoText THEN 1 ELSE 0)
    + 1

ConferenceIsMoreComplete(conf1, conf2) == ConferenceCount(conf1) > ConferenceCount(conf2)

\* ResearchArticleParser._is_more_complete: values neither None nor "".
TextFilled(text) == text # NoText /\ text # ""
ArticleCount(article) ==
    (IF TextFilled(article.title) THEN 1 ELSE 0)
    + (IF TextFilled(article.url) THEN 1 ELSE 0)
    + 1
    + (IF article.publication_date # NoDate THEN 1 ELSE 0)
    + (IF TextFilled(article.summary) THEN 1 ELSE 0)
    + (IF TextFilled(article.source) THEN 1 ELSE 0)
    + 1
    + (IF TextFilled(article.publication) THEN 1 ELSE 0)

\* Variant: the counts alone decide, the summary has no precedence.
ArticleIsMoreComplete_CountOnly(article1, article2) ==
    ArticleCount(article1) > ArticleCount(article2)

ArticleIsMoreComplete(article1, article2) ==
    LET has_summary1 == TextFilled(article1.summary)
        has_summary2 == TextFilled(article2.summary)
    IN IF has_summary1 /\ ~has_summary2 THEN TRUE
       ELSE IF ~has_summary1 /\ has_summary2 THEN FALSE
       ELSE ArticleCount(article1) > ArticleCount(article2)

\* dict operations on the insertion-ordered sequence of [key, record].
HasKey(dict, key) == \E i \in DOMAIN dict : dict[i].key = key
IndexOf(dict, key) == CHOOSE i \in DOMAIN dict : dict[i].key = key
Lookup(dict, key) == dict[IndexOf(dict, key)].record
\* Variant: a new key goes first.
Store_NewKeyFirst(dict, key, record) ==
    IF HasKey(dict, key)
    THEN [dict EXCEPT ![IndexOf(dict, key)].record = record]
    ELSE <<[key |-> key, record |-> record]>> \o dict

\* dict[key] = record: a new key goes last, a known key keeps its place.
Store(dict, key, record) ==
    IF HasKey(dict, key)
    THEN [dict EXCEPT ![IndexOf(dict, key)].record = record]
    ELSE Append(dict, [key |-> key, record |-> record])
\* list(dict.values())
Values(dict) == [i \in DOMAIN dict |-> dict[i].record]

\* One iteration of the for loop of _remove_duplicates.  The else branch
\* assigns the united topics to the dict kept in unique, which is the object
\* of the input list; the loop never reads an earlier element of the list
\* again, so records is kept here as it was passed in.
MergeOne(dict, key, record, more_complete) ==
    IF ~HasKey(dict, key) \/ more_complete
    THEN Store(dict, key, record)
    ELSE Store(dict, key,
               [Lookup(dict, key) EXCEPT
                   !.topics = Lookup(dict, key).topics \cup record.topics])

InitMerge ==
    /\ reconciler \in {"conference", "article"}
    /\ records \in UNION {[1..n -> IF reconciler = "conference" THEN Conferences ELSE Articles] :
                            n \in 0..MaxRecords}
    /\ unique = <<>>
    /\ pos = 1
    /\ merged = FALSE
    /\ remerge = FALSE
    /\ db = <<>>
    /\ now = Day0
    /\ pc = "off"
    /\ tasks = <<>>
    /\ due = <<>>
    /\ idx = 1
    /\ results = <<>>
    /\ log = <<>>
    /\ upd = <<>>
    /\ passes = 0
    /\ created = 0
    /\ ParserIdle
    /\ ParametersIdle
    /\ DatesIdle
    /\ ApiIdle

\* ConferenceTracker._remove_duplicates, one conference.
ConferenceStep ==
    /\ reconciler = "conference"
    /\ ~merged
    /\ pos <= Len(records)
    /\ LET conf == records[pos]
           key == ConferenceKey(conf)
       IN unique' = MergeOne(unique, key, conf,
                        HasKey(unique, key) /\ ConferenceIsMoreComplete(conf, Lookup(unique, key)))
    /\ pos' = pos + 1
    /\ UNCHANGED <<reconciler, records, merged, remerge>>
    /\ UNCHANGED <<svars, pvars, qvars, dvars, avars>>

\* ResearchArticleParser._remove_duplicates, one article; an article without
\* title is passed over.
ArticleStep ==
    /\ reconciler = "article"
    /\ ~merged
    /\ pos <= Len(records)
    /\ LET article == records[pos]
           title == Lower(article.title)
       IN unique' = IF title = "" THEN unique
                    ELSE MergeOne(unique, title, article,
                            HasKey(unique, title) /\ ArticleIsMoreComplete(article, Lookup(unique, title)))
    /\ pos' = pos + 1
    /\ UNCHANGED <<reconciler, records, merged, remerge>>
    /\ UNCHANGED <<svars, pvars, qvars, dvars, avars>>

\* return list(unique.values())
MergeReturn ==
    /\ reconciler # "none"
    /\ ~merged
    /\ pos > Len(records)
    /\ merged' = TRUE
    /\ UNCHANGED <<reconciler, records, unique, pos, remerge>>
    /\ UNCHANGED <<svars, pvars, qvars, dvars, avars>>

\* The list returned is passed to _remove_duplicates again.
MergeAgain ==
    /\ reconciler # "none"
    /\ merged
    /\ ~remerge
    /\ records' = Values(unique)
    /\ unique' = <<>>
    /\ pos' = 1
    /\ merged' = FALSE
    /\ remerge' = TRUE
    /\ UNCHANGED reconciler
    /\ UNCHANGED <<svars, pvars, qvars, dvars, avars>>

NextMerge ==
    \/ ConferenceStep
    \/ ArticleStep
    \/ MergeReturn
    \/ MergeAgain

SpecMerge == InitMerge /\ [][NextMerge]_vars

\* ------------------------------------------------------------ task parser
\* Texts are sequences of characters.  str.lower() on the letters.
UpperLetters ==
    <<"A", "B", "C", "D", "E", "F", "G", "H", "I", "J", "K", "L", "M",
      "N", "O", "P", "Q", "R", "S", "T", "U", "V", "W", "X", "Y", "Z">>
LowerLetters ==
    <<"a", "b", "c", "d", "e", "f", "g", "h", "i", "j", "k", "l", "m",
      "n", "o", "p", "q", "r", "s", "t", "u", "v", "w", "x", "y", "z">>
LowerChar(c) ==
    IF \E n \in DOMAIN UpperLetters : UpperLetters[n] = c
    THEN LowerLetters[CHOOSE n \in DOMAIN UpperLetters : UpperLetters[n] = c]
    ELSE c
LowerCase(chars) == [n \in DOMAIN chars |-> LowerChar(chars[n])]

\* keyword in text: the keyword is a substring of the text.
Contains(chars, keyword) ==
    \E o \in 0..(Len(chars) - Len(keyword)) :
        \A n \in 1..Len(keyword) : chars[o + n] = keyword[n]

\* Python truthiness of a name: None and "" are falsy.
NameTruthy(name) == name.k = "text" /\ name.s # <<>>

\* Variant: the research keywords are tried before the conference ones.
TaskTypeTable_ResearchFirst ==
    <<
      [type |-> "research",
       keywords |-> <<<<"r", "e", "s", "e", "a", "r", "c", "h">>,
                      <<"a", "r", "t", "i", "c", "l", "e">>,
                      <<"p", "a", "p", "e", "r">>,
                      <<"p", "u", "b", "l", "i", "c", "a", "t", "i", "o", "n">>,
                      <<"s", "t", "u", "d", "y">>>>],
      [type |-> "conference",
       keywords |-> <<<<"c", "o", "n", "f", "e", "r", "e", "n", "c", "e">>,
                      <<"c", "o", "n", "f">>,
                      <<"e", "v", "e", "n", "t">>,
                      <<"w", "o", "r", "k", "s", "h", "o", "p">>,
                      <<"s", "y", "m", "p", "o", "s", "i", "u", "m">>>>],
      [type |-> "project",
       keywords |-> <<<<"p", "r", "o", "j", "e", "c", "t">>,
                      <<"m", "i", "l", "e", "s", "t", "o", "n", "e">>,
                      <<"d", "e", "v", "e", "l", "o", "p", "m", "e", "n", "t">>,
                      <<"p", "r", "o", "g", "r", "e", "s", "s">>>>],
      [type |-> "stakeholder",
       keywords |-> <<<<"s", "t", "a", "k", "e", "h", "o", "l", "d", "e", "r">>,
                      <<"c", "o", "n", "t", "a", "c", "t">>,
                      <<"f", "o", "l", "l", "o", "w", "-", "u", "p">>,
                      <<"m", "e", "e", "t", "i", "n", "g">>,
                      <<"c", "l", "i", "e", "n", "t">>>>]
    >>

\* self.task_types, in insertion order.
TaskTypeTable ==
    <<
      [type |-> "conference",
       keywords |-> <<<<"c", "o", "n", "f", "e", "r", "e", "n", "c", "e">>,
                      <<"c", "o", "n", "f">>,
                      <<"e", "v", "e", "n", "t">>,
                      <<"w", "o", "r", "k", "s", "h", "o", "p">>,
                      <<"s", "y", "m", "p", "o", "s", "i", "u", "m">>>>],
      [type |-> "research",
       keywords |-> <<<<"r", "e", "s", "e", "a", "r", "c", "h">>,
                      <<"a", "r", "t", "i", "c", "l", "e">>,
                      <<"p", "a", "p", "e", "r">>,
                      <<"p", "u", "b", "l", "i", "c", "a", "t", "i", "o", "n">>,
                      <<"s", "t", "u", "d", "y">>>>],
      [type |-> "project",
       keywords |-> <<<<"p", "r", "o", "j", "e", "c", "t">>,
                      <<"m", "i", "l", "e", "s", "t", "o", "n", "e">>,
                      <<"d", "e", "v", "e", "l", "o", "p", "m", "e", "n", "t">>,
                      <<"p", "r", "o", "g", "r", "e", "s", "s">>>>],
      [type |-> "stakeholder",
       keywords |-> <<<<"s", "t", "a", "k", "e", "h", "o", "l", "d", "e", "r">>,
                      <<"c", "o", "n", "t", "a", "c", "t">>,
                      <<"f", "o", "l", "l", "o", "w", "-", "u", "p">>,
                      <<"m", "e", "e", "t", "i", "n", "g">>,
                      <<"c", "l", "i", "e", "n", "t">>>>]
    >>

\* The two for loops of _infer_task_type, from table entry t on.
RECURSIVE InferLoop(_, _)
InferLoop(task_name_lower, t) ==
    IF t > Len(TaskTypeTable) THEN "unknown"
    ELSE IF \E n \in DOMAIN TaskTypeTable[t].keywords :
               Contains(task_name_lower, TaskTypeTable[t].keywords[n])
         THEN TaskTypeTable[t].type
         ELSE InferLoop(task_name_lower, t + 1)

\* TaskParser._infer_task_type
InferTaskType(name) ==
    IF ~NameTruthy(name) THEN "unknown"
    ELSE InferLoop(LowerCase(name.s), 1)

\* The names: up to MaxWords words of Words separated by one space, and the
\* three names of the specification's examples.
Words ==
    {<<"T", "r", "a", "c", "k">>,
     <<"A", "I">>,
     <<"c", "o", "n", "f", "e", "r", "e", "n", "c", "e", "s">>,
     <<"F", "i", "n", "d">>,
     <<"R", "E", "S", "E", "A", "R", "C", "H">>,
     <<"P", "r", "o", "j", "e", "c", "t">>,
     <<"M", "e", "e", "t", "i", "n", "g">>,
     <<"b", "u", "d", "g", "e", "t">>,
     <<"P", "r", "e", "v", "e", "n", "t">>,
     <<"n", "e", "w", "s", "p", "a", "p", "e", "r">>,
     <<"C", "o", "n", "f">>,
     <<"o", "n">>}
RECURSIVE Join(_)
Join(ws) ==
    IF Len(ws) = 0 THEN <<>>
    ELSE IF Len(ws) = 1 THEN ws[1]
    ELSE ws[1] \o <<" ">> \o Join(Tail(ws))
TrackAIConferences == Join(<<<<"T", "r", "a", "c", "k">>, <<"A", "I">>, <<"c", "o", "n", "f", "e", "r", "e", "n", "c", "e", "s">>>>)
FindResearchOnGameAI ==
    Join(<<<<"F", "i", "n", "d">>,
           <<"r", "e", "s", "e", "a", "r", "c", "h">>,
           <<"o", "n">>,
           <<"g", "a", "m", "e">>,
           <<"A", "I">>>>)
QuarterlyBudgetReview ==
    Join(<<<<"Q", "u", "a", "r", "t", "e", "r", "l", "y">>,
           <<"b", "u", "d", "g", "e", "t">>,
           <<"r", "e", "v", "i", "e", "w">>>>)
TaskNames ==
    {NoName}
    \cup {Text(Join(ws)) : ws \in UNION {[1..n -> Words] : n \in 0..MaxWords}}
    \cup {Text(TrackAIConferences), Text(FindResearchOnGameAI),
          Text(QuarterlyBudgetReview)}

\* The scheduler is not running.
SchedulerOff ==
    /\ db = <<>>
    /\ now = Day0
    /\ pc = "off"
    /\ tasks = <<>>
    /\ due = <<>>
    /\ idx = 1
    /\ results = <<>>
    /\ log = <<>>
    /\ upd = <<>>
    /\ passes = 0
    /\ created = 0

InitClassify ==
    /\ task_name \in TaskNames
    /\ task_type = NoSelect
    /\ SchedulerOff
    /\ MergeIdle
    /\ ParametersIdle
    /\ DatesIdle
    /\ ApiIdle

\* parse_todo_item of an item without Type: the type is inferred from the
\* name.
InferType ==
    /\ pc = "off"
    /\ reconciler = "none"
    /\ ~Truthy(task_type)
    /\ task_type' = InferTaskType(task_name)
    /\ UNCHANGED task_name
    /\ UNCHANGED <<svars, mvars, qvars, dvars, avars>>

NextClassify == InferType

SpecClassify == InitClassify /\ [][NextClassify]_vars

\* ------------------------------------------------ task parser: parameters
\* Python values: what json.loads returns and what _parse_parameters builds.
\* A dict is the sequence of its items in insertion order.
PyNone == [k |-> "none", v |-> 0]
PyBool(b) == [k |-> "bool", v |-> b]
PyInt(n) == [k |-> "int", v |-> n]
PyStr(chars) == [k |-> "str", v |-> chars]
PyList(items) == [k |-> "list", v |-> items]
PyDict(items) == [k |-> "dict", v |-> items]
Item(key, value) == [key |-> key, value |-> value]
\* The call did not return: it raised the named exception.
Raised(exception) == [k |-> "raise", v |-> exception]

\* json.loads on the JSON texts without sign, fraction, exponent or escape:
\* a recursive descent over the characters.  A scan returns whether it
\* succeeded, the value and the position after it.
Digits == <<"0", "1", "2", "3", "4", "5", "6", "7", "8", "9">>
IsDigit(c) == \E n \in DOMAIN Digits : Digits[n] = c
DigitValue(c) == (CHOOSE n \in DOMAIN Digits : Digits[n] = c) - 1
Whitespace == {" ", "\t", "\n"}
NoScan(i) == [ok |-> FALSE, val |-> PyNone, next |-> i]
Scan(val, i) == [ok |-> TRUE, val |-> val, next |-> i]
At(s, i) == IF i \in DOMAIN s THEN s[i] ELSE "end"
StartsWithAt(s, i, word) ==
    /\ i + Len(word) - 1 <= Len(s)
    /\ \A n \in 1..Len(word) : s[i + n - 1] = word[n]
RECURSIVE SkipWhitespace(_, _)
SkipWhitespace(s, i) ==
    IF At(s, i) \in Whitespace THEN SkipWhitespace(s, i + 1) ELSE i
RECURSIVE ScanDigits(_, _, _)
ScanDigits(s, i, n) ==
    IF IsDigit(At(s, i)) THEN ScanDigits(s, i + 1, 10 * n + DigitValue(s[i]))
    ELSE Scan(PyInt(n), i)
ScanNumber(s, i) ==
    IF At(s, i) = "0" THEN Scan(PyInt(0), i + 1) ELSE ScanDigits(s, i, 0)
RECURSIVE ScanStringEnd(_, _)
ScanStringEnd(s, i) ==
    IF i > Len(s) THEN 0
    ELSE IF s[i] = "\"" THEN i
    ELSE ScanStringEnd(s, i + 1)
ScanString(s, i) ==
    LET e == ScanStringEnd(s, i + 1)
    IN IF e = 0 THEN NoScan(i)
       ELSE Scan(PyStr(SubSeq(s, i + 1, e - 1)), e + 1)
RECURSIVE ScanValue(_, _)
RECURSIVE ScanElements(_, _, _)
RECURSIVE ScanMembers(_, _, _)
\* After "[" or ",": a value, then "," or "]".
ScanElements(s, i, items) ==
    LET e == ScanValue(s, SkipWhitespace(s, i))
        j == SkipWhitespace(s, e.next)
    IN IF ~e.ok THEN NoScan(i)
       ELSE IF At(s, j) = "," THEN ScanElements(s, j + 1, Append(items, e.val))
       ELSE IF At(s, j) = "]" THEN Scan(PyList(Append(items, e.val)), j + 1)
       ELSE NoScan(i)
\* After "{" or ",": a string, ":", a value, then "," or "}".
ScanMembers(s, i, items) ==
    LET h == SkipWhitespace(s, i)
        key == IF At(s, h) = "\"" THEN ScanString(s, h) ELSE NoScan(h)
        c == SkipWhitespace(s, key.next)
        e == IF key.ok /\ At(s, c) = ":"
             THEN ScanValue(s, SkipWhitespace(s, c + 1))
             ELSE NoScan(c)
        j == SkipWhitespace(s, e.next)
    IN IF ~e.ok THEN NoScan(i)
       ELSE IF At(s, j) = ","
            THEN ScanMembers(s, j + 1, Append(items, Item(key.val.v, e.val)))
       ELSE IF At(s, j) = "}"
            THEN Scan(PyDict(Append(items, Item(key.val.v, e.val))), j + 1)
       ELSE NoScan(i)
ScanValue(s, i) ==
    LET c == At(s, i)
    IN IF c = "{"
       THEN IF At(s, SkipWhitespace(s, i + 1)) = "}"
            THEN Scan(PyDict(<<>>), SkipWhitespace(s, i + 1) + 1)
            ELSE ScanMembers(s, i + 1, <<>>)
       ELSE IF c = "["
       THEN IF At(s, SkipWhitespace(s, i + 1)) = "]"
            THEN Scan(PyList(<<>>), SkipWhitespace(s, i + 1) + 1)
            ELSE ScanElements(s, i + 1, <<>>)
       ELSE IF c = "\"" THEN ScanString(s, i)
       ELSE IF IsDigit(c) THEN ScanNumber(s, i)
       ELSE IF StartsWithAt(s, i, <<"n", "u", "l", "l">>) THEN Scan(PyNone, i + 4)
       ELSE IF StartsWithAt(s, i, <<"t", "r", "u", "e">>) THEN Scan(PyBool(TRUE), i + 4)
       ELSE IF StartsWithAt(s, i, <<"f", "a", "l", "s", "e">>) THEN Scan(PyBool(FALSE), i + 5)
       ELSE NoScan(i)
\* json.loads(s): the value of the whole text, or JSONDecodeError.
JsonLoads(s) ==
    LET e == ScanValue(s, SkipWhitespace(s, 1))
    IN IF e.ok /\ SkipWhitespace(s, e.next) = Len(s) + 1
       THEN e.val
       ELSE Raised("JSONDecodeError")

\* str.split(): the maximal runs of characters that are not whitespace.
RECURSIVE SplitFrom(_, _, _, _)
SplitFrom(s, i, word, words) ==
    IF i > Len(s) THEN IF word = <<>> THEN words ELSE Append(words, word)
    ELSE IF s[i] \in Whitespace
         THEN SplitFrom(s, i + 1, <<>>, IF word = <<>> THEN words ELSE Append(words, word))
         ELSE SplitFrom(s, i + 1, Append(word, s[i]), words)
Split(s) == SplitFrom(s, 1, <<>>, <<>>)

\* str.strip(chars): the characters of the set are removed from both ends.
RECURSIVE StripLeft(_, _)
StripLeft(s, chars) ==
    IF s # <<>> /\ Head(s) \in chars THEN StripLeft(Tail(s), chars) ELSE s
RECURSIVE StripRight(_, _)
StripRight(s, chars) ==
    IF s # <<>> /\ s[Len(s)] \in chars
    THEN StripRight(SubSeq(s, 1, Len(s) - 1), chars)
    ELSE s
Strip(s, chars) == StripRight(StripLeft(s, chars), chars)
Punctuation == {",", ".", ";", ":", "(", ")", "[", "]", "{", "}", "\"", "'"}

\* str.replace(old, ""): the occurrences of old are removed, left to right.
RECURSIVE Remove(_, _)
Remove(s, old) ==
    IF s = <<>> THEN <<>>
    ELSE IF StartsWithAt(s, 1, old) THEN Remove(SubSeq(s, Len(old) + 1, Len(s)), old)
    ELSE <<Head(s)>> \o Remove(Tail(s), old)

\* common_words of _extract_topics
CommonWords ==
    <<<<"t", "r", "a", "c", "k">>,
      <<"m", "o", "n", "i", "t", "o", "r">>,
      <<"u", "p", "d", "a", "t", "e">>,
      <<"f", "i", "n", "d">>,
      <<"s", "e", "a", "r", "c", "h">>,
      <<"g", "e", "t">>,
      <<"l", "i", "s", "t">>,
      <<"o", "f">>,
      <<"o", "n">>,
      <<"f", "o", "r">>,
      <<"a", "b", "o", "u", "t">>,
      <<"t", "h", "e">>,
      <<"a", "n", "d">>,
      <<"i", "n">>>>
IsCommonWord(word) == \E n \in DOMAIN CommonWords : CommonWords[n] = word

\* Variant: a stop word does not end the current topic, so the words on both
\* sides of it are joined into one phrase.
RECURSIVE TopicLoop_JoinsRuns(_, _, _, _)
TopicLoop_JoinsRuns(words, i, current_topic, topics) ==
    IF i > Len(words)
    THEN IF current_topic # <<>> THEN Append(topics, Join(current_topic)) ELSE topics
    ELSE LET word_lower == Strip(LowerCase(words[i]), Punctuation)
         IN IF ~IsCommonWord(word_lower) /\ word_lower # <<>>
            THEN TopicLoop_JoinsRuns(words, i + 1, Append(current_topic, words[i]), topics)
            ELSE TopicLoop_JoinsRuns(words, i + 1, current_topic, topics)

\* The for loop of _extract_topics from word i on, and the append after it.
RECURSIVE TopicLoop(_, _, _, _)
TopicLoop(words, i, current_topic, topics) ==
    IF i > Len(words)
    THEN IF current_topic # <<>> THEN Append(topics, Join(current_topic)) ELSE topics
    ELSE LET word_lower == Strip(LowerCase(words[i]), Punctuation)
         IN IF ~IsCommonWord(word_lower) /\ word_lower # <<>>
            THEN TopicLoop(words, i + 1, Append(current_topic, words[i]), topics)
            ELSE IF current_topic # <<>>
            THEN TopicLoop(words, i + 1, <<>>, Append(topics, Join(current_topic)))
            ELSE TopicLoop(words, i + 1, <<>>, topics)

\* Variant: the default topic "AI" is given whether or not the text holds it.
DefaultTopics_Unconditional(text) ==
    <<<<"A", "I">>>>
    \o (IF Contains(LowerCase(text), <<"g", "a", "m", "e">>) THEN <<<<"G", "a", "m", "e">>>> ELSE <<>>)

\* The default topics of _extract_topics, used when the loop found none.
DefaultTopics(text) ==
    (IF Contains(text, <<"A", "I">>) \/ Contains(LowerCase(text), <<"a", "i">>)
     THEN <<<<"A", "I">>>> ELSE <<>>)
    \o (IF Contains(LowerCase(text), <<"g", "a", "m", "e">>) THEN <<<<"G", "a", "m", "e">>>> ELSE <<>>)

\* TaskParser._extract_topics
ExtractTopics(text) ==
    LET topics == TopicLoop(Split(text), 1, <<>>, <<>>)
    IN IF topics = <<>> THEN DefaultTopics(text) ELSE topics

\* The second half of _parse_parameters: the parameters inferred from the
\* name and the type.  A name of None has no split and no replace.
InferParameters(name, type) ==
    IF type \in {"conference", "research"}
    THEN IF name.k = "none" THEN Raised("AttributeError")
         ELSE PyDict(<<Item(<<"t", "o", "p", "i", "c", "s">>,
                            PyList([n \in DOMAIN ExtractTopics(name.s) |->
                                       PyStr(ExtractTopics(name.s)[n])])),
                       Item(<<"t", "i", "m", "e", "f", "r", "a", "m", "e">>,
                            PyStr(IF type = "conference"
                                  THEN <<"u", "p", "c", "o", "m", "i", "n", "g">>
                                  ELSE <<"r", "e", "c", "e", "n", "t">>))>>)
    ELSE IF type = "project"
    THEN IF name.k = "none" THEN Raised("AttributeError")
         ELSE PyDict(<<Item(<<"p", "r", "o", "j", "e", "c", "t", "_", "n", "a", "m", "e">>,
                            PyStr(Strip(Remove(Remove(name.s, <<"T", "r", "a", "c", "k">>), <<"M", "o", "n", "i", "t", "o", "r">>),
                                        Whitespace)))>>)
    ELSE IF type = "stakeholder"
    THEN IF name.k = "none" THEN Raised("AttributeError")
         ELSE PyDict(<<Item(<<"s", "t", "a", "k", "e", "h", "o", "l", "d", "e", "r", "_", "n", "a", "m", "e">>,
                            PyStr(Strip(Remove(Remove(name.s, <<"C", "o", "n", "t", "a", "c", "t">>), <<"F", "o", "l", "l", "o", "w", " ", "u", "p", " ", "w", "i", "t", "h">>),
                                        Whitespace)))>>)
    ELSE PyDict(<<>>)

\* TaskParser._parse_parameters
ParseParameters(text, name, type) ==
    IF NameTruthy(text) /\ JsonLoads(text.s).k # "raise"
    THEN JsonLoads(text.s)
    ELSE InferParameters(name, type)

\* The Parameters texts: absent, empty, JSON objects, JSON values that are
\* not objects, and texts that are not JSON.
ParameterTexts ==
    {NoName,
     Text(<<>>),
     Text(<<"{", "}">>),
     Text(<<"{", "\"", "t", "i", "m", "e", "f", "r", "a", "m", "e", "\"", ":", " ", "\"", "a", "l", "l", "\"", "}">>),
     Text(<<"{", "\"", "t", "o", "p", "i", "c", "s", "\"", ":", " ", "[", "\"", "A", "I", "\"", ",", " ", "\"", "M", "L", "\"", "]", ",", " ", "\"", "t", "i", "m", "e", "f", "r", "a", "m", "e", "\"", ":", " ", "\"", "t", "h", "i", "s", "_", "y", "e", "a", "r", "\"", "}">>),
     Text(<<"[", "\"", "A", "I", "\"", "]">>),
     Text(<<"5">>),
     Text(<<"\"", "A", "I", "\"">>),
     Text(<<"n", "u", "l", "l">>),
     Text(<<"t", "r", "u", "e">>),
     Text(<<"A", "I", ",", " ", "g", "a", "m", "e", "s">>),
     Text(<<"{", "\"", "t", "o", "p", "i", "c", "s", "\"", ":", " ", "[", "\"", "A", "I", "\"", "]">>),
     Text(<<"{", "\"", "t", "o", "p", "i", "c", "s", "\"", ":", " ", "\"", "A", "I", "\"", "}", " ", "x">>)}

\* Names for topic extraction: up to MaxTokens words separated by one space,
\* among them stop words, a stop word with a capital and a comma, a lone
\* comma and a word in brackets.
TopicWords ==
    {<<"A", "I">>,
     <<"g", "a", "m", "e", "s">>,
     <<"a", "n", "d">>,
     <<"T", "h", "e", ",">>,
     <<",">>,
     <<"(", "M", "L", ")">>}
TopicNames ==
    {Text(Join(ws)) : ws \in UNION {[1..n -> TopicWords] : n \in 0..MaxTokens}}

\* The Type select of a todo item: unset, or one of the types.
TypeSelects == {NoSelect} \cup TaskTypes

\* A todo item with a Parameters text (and one of a few names), or without
\* one (and any name).
InitParameters ==
    /\ \/ /\ params_str \in ParameterTexts
          /\ task_name \in {NoName, Text(<<>>), Text(TrackAIConferences),
                            Text(FindResearchOnGameAI), Text(QuarterlyBudgetReview)}
       \/ /\ params_str = NoName
          /\ task_name \in TaskNames \cup TopicNames
    /\ task_type \in TypeSelects
    /\ parameters = Unset
    /\ SchedulerOff
    /\ MergeIdle
    /\ DatesIdle
    /\ ApiIdle

\* parse_todo_item: the type is the Type select or, without one, the type
\* inferred from the name; the parameters are parsed with that type.
ParseTodoItemParameters ==
    /\ pc = "off"
    /\ reconciler = "none"
    /\ collector = "none"
    /\ parameters = Unset
    /\ LET type == IF Truthy(task_type) THEN task_type ELSE InferTaskType(task_name)
       IN /\ task_type' = type
          /\ parameters' = ParseParameters(params_str, task_name, type)
    /\ UNCHANGED <<task_name, params_str>>
    /\ UNCHANGED <<svars, mvars, dvars, avars>>

NextParameters == ParseTodoItemParameters

SpecParameters == InitParameters /\ [][NextParameters]_vars

\* ------------------------------------------------------------------ dates
\* The calendar of datetime: leap years, the days of a month, and the
\* ordinal of a day (date.toordinal), in which differences are taken.
IsLeap(y) == y % 4 = 0 /\ (y % 100 # 0 \/ y % 400 = 0)
DaysInMonth(y, m) ==
    IF m = 2 THEN IF IsLeap(y) THEN 29 ELSE 28
    ELSE IF m \in {4, 6, 9, 11} THEN 30
    ELSE 31
ValidDate(y, m, d) ==
    /\ y \in 1..9999
    /\ m \in 1..12
    /\ d \in 1..DaysInMonth(y, m)
RECURSIVE DaysBeforeMonth(_, _)
DaysBeforeMonth(y, m) ==
    IF m = 1 THEN 0 ELSE DaysBeforeMonth(y, m - 1) + DaysInMonth(y, m - 1)
Ordinal(date) ==
    LET p == date.y - 1
    IN 365 * p + (p \div 4) - (p \div 100) + (p \div 400)
       + DaysBeforeMonth(date.y, date.m) + date.d

\* The abbreviated month names of %b; strptime ignores their case.
MonthNames ==
    <<<<"j", "a", "n">>,
      <<"f", "e", "b">>,
      <<"m", "a", "r">>,
      <<"a", "p", "r">>,
      <<"m", "a", "y">>,
      <<"j", "u", "n">>,
      <<"j", "u", "l">>,
      <<"a", "u", "g">>,
      <<"s", "e", "p">>,
      <<"o", "c", "t">>,
      <<"n", "o", "v">>,
      <<"d", "e", "c">>>>

\* One field of a strptime format at position i of the text: the width the
\* directive's pattern takes and the value it stands for.
TwoDigits(s, i) == IsDigit(At(s, i)) /\ IsDigit(At(s, i + 1))
TwoDigitValue(s, i) == 10 * DigitValue(s[i]) + DigitValue(s[i + 1])
\* One or two digits: two when they make a value of the range, else one.
ScanUpToTwo(s, i, both, single) ==
    IF TwoDigits(s, i) /\ TwoDigitValue(s, i) \in both
    THEN Scan(TwoDigitValue(s, i), i + 2)
    ELSE IF IsDigit(At(s, i)) /\ DigitValue(s[i]) \in single
    THEN Scan(DigitValue(s[i]), i + 1)
    ELSE NoScan(i)
ScanYear(s, i) ==
    IF TwoDigits(s, i) /\ TwoDigits(s, i + 2)
    THEN Scan(100 * TwoDigitValue(s, i) + TwoDigitValue(s, i + 2), i + 4)
    ELSE NoScan(i)
ScanMonthName(s, i) ==
    IF i + 2 <= Len(s)
       /\ \E m \in DOMAIN MonthNames : MonthNames[m] = LowerCase(SubSeq(s, i, i + 2))
    THEN Scan(CHOOSE m \in DOMAIN MonthNames :
                  MonthNames[m] = LowerCase(SubSeq(s, i, i + 2)), i + 3)
    ELSE NoScan(i)
ScanDirective(s, i, directive) ==
    CASE directive = "%Y" -> ScanYear(s, i)
      [] directive = "%m" -> ScanUpToTwo(s, i, 1..12, 1..9)
      [] directive = "%d" -> ScanUpToTwo(s, i, 1..31, 1..9)
      [] directive = "%H" -> ScanUpToTwo(s, i, 0..23, 0..9)
      [] directive = "%M" -> ScanUpToTwo(s, i, 0..59, 0..9)
      [] directive = "%S" -> ScanUpToTwo(s, i, 0..61, 0..9)
      [] directive = "%b" -> ScanMonthName(s, i)
      [] directive = " " -> IF At(s, i) \in Whitespace
                            THEN Scan(0, SkipWhitespace(s, i))
                            ELSE NoScan(i)
      [] OTHER -> IF At(s, i) = directive THEN Scan(0, i + 1) ELSE NoScan(i)

\* The text matched against the format from its element j on: the fields
\* found, and whether the whole text was used up.
NoFields == [ok |-> FALSE, y |-> 0, m |-> 0, d |-> 0]
RECURSIVE MatchFormat(_, _, _, _, _)
MatchFormat(s, i, format, j, fields) ==
    IF j > Len(format)
    THEN IF i = Len(s) + 1 THEN fields ELSE NoFields
    ELSE LET e == ScanDirective(s, i, format[j])
         IN IF ~e.ok THEN NoFields
            ELSE MatchFormat(s, e.next, format, j + 1,
                    CASE format[j] = "%Y" -> [fields EXCEPT !.y = e.val]
                      [] format[j] \in {"%m", "%b"} -> [fields EXCEPT !.m = e.val]
                      [] format[j] = "%d" -> [fields EXCEPT !.d = e.val]
                      [] OTHER -> fields)

\* datetime.strptime(s, format): the date, or ok = FALSE for ValueError (no
\* match, text left over, or a day the month does not have).
DatetimeStrptime(s, format) ==
    LET f == MatchFormat(s, 1, format, 1, [ok |-> TRUE, y |-> 1900, m |-> 1, d |-> 1])
    IN IF f.ok /\ ValidDate(f.y, f.m, f.d) THEN f ELSE NoFields

\* strftime("%Y-%m-%d") of a date whose year has four digits.
Pad2(n) == <<Digits[(n \div 10) + 1], Digits[(n % 10) + 1]>>
Pad4(n) == Pad2(n \div 100) \o Pad2(n % 100)
StrftimeIso(date) == Pad4(date.y) \o <<"-">> \o Pad2(date.m) \o <<"-">> \o Pad2(date.d)
IsoFormat == <<"%Y", "-", "%m", "-", "%d">>

\* The for loop over the formats: the first one that parses the text.
RECURSIVE TryFormats(_, _, _)
TryFormats(s, formats, n) ==
    IF n > Len(formats) THEN PyNone
    ELSE IF DatetimeStrptime(s, formats[n]).ok
         THEN PyStr(StrftimeIso(DatetimeStrptime(s, formats[n])))
         ELSE TryFormats(s, formats, n + 1)

\* Variant: without the month/day/year format, which leaves such texts to
\* the day-month-year pattern.
ConferenceFormats_NoMonthDayYear ==
    <<<<"%b", " ", "%d", ",", " ", "%Y">>,
      <<"%d", " ", "%b", " ", "%Y">>,
      <<"%Y", "-", "%m", "-", "%d">>>>
\* The formats of ConferenceTracker._parse_date, in the order tried.
ConferenceFormats ==
    <<<<"%b", " ", "%d", ",", " ", "%Y">>,
      <<"%d", " ", "%b", " ", "%Y">>,
      <<"%Y", "-", "%m", "-", "%d">>,
      <<"%m", "/", "%d", "/", "%Y">>>>
\* The formats of ResearchArticleParser._parse_date, in the order tried.
ArticleFormats ==
    <<<<"%Y", "-", "%m", "-", "%d", "T", "%H", ":", "%M", ":", "%S", "Z">>,
      <<"%Y", "-", "%m", "-", "%d">>,
      <<"%b", " ", "%d", ",", " ", "%Y">>,
      <<"%d", " ", "%b", " ", "%Y">>,
      <<"%m", "/", "%d", "/", "%Y">>>>

\* re.search of (\d{1,2})[/-](\d{1,2})[/-](\d{2,4}): the groups of the
\* leftmost match.  A group of one or two digits is followed by a separator,
\* so it takes all the digits there are; the last group takes up to four.
DateSeparators == {"/", "-"}
ScanOneOrTwo(s, i) ==
    IF TwoDigits(s, i) /\ At(s, i + 2) \in DateSeparators
    THEN Scan(TwoDigitValue(s, i), i + 3)
    ELSE IF IsDigit(At(s, i)) /\ At(s, i + 1) \in DateSeparators
    THEN Scan(DigitValue(s[i]), i + 2)
    ELSE NoScan(i)
\* The year group, and the year it is read as: two digits are prefixed "20".
ScanYearGroup(s, i) ==
    IF TwoDigits(s, i) /\ TwoDigits(s, i + 2)
    THEN Scan(100 * TwoDigitValue(s, i) + TwoDigitValue(s, i + 2), i + 4)
    ELSE IF TwoDigits(s, i) /\ IsDigit(At(s, i + 2))
    THEN Scan(10 * TwoDigitValue(s, i) + DigitValue(s[i + 2]), i + 3)
    ELSE IF TwoDigits(s, i)
    THEN Scan(2000 + TwoDigitValue(s, i), i + 2)
    ELSE NoScan(i)
MatchDatePattern(s, i) ==
    LET day == ScanOneOrTwo(s, i)
        month == IF day.ok THEN ScanOneOrTwo(s, day.next) ELSE NoScan(i)
        year == IF month.ok THEN ScanYearGroup(s, month.next) ELSE NoScan(i)
    IN IF year.ok
       THEN [ok |-> TRUE, y |-> year.val, m |-> month.val, d |-> day.val]
       ELSE NoFields
RECURSIVE SearchDatePattern(_, _)
SearchDatePattern(s, i) ==
    IF i > Len(s) THEN NoFields
    ELSE IF MatchDatePattern(s, i).ok THEN MatchDatePattern(s, i)
    ELSE SearchDatePattern(s, i + 1)

\* Variant: without the outer try, the ValueError of datetime() for a day
\* that does not exist leaves the function.
ConferenceParseDate_NoOuterTry(date) ==
    IF ~NameTruthy(date) THEN PyNone
    ELSE IF TryFormats(date.s, ConferenceFormats, 1) # PyNone
    THEN TryFormats(date.s, ConferenceFormats, 1)
    ELSE LET match == SearchDatePattern(date.s, 1)
         IN IF ~match.ok THEN PyNone
            ELSE IF ValidDate(match.y, match.m, match.d)
            THEN PyStr(StrftimeIso(match))
            ELSE Raised("ValueError")

\* ConferenceTracker._parse_date: None for a text that is absent or empty,
\* the first format that parses, then the pattern with its groups read as
\* day, month and year; datetime() of a day that does not exist raises
\* ValueError, which the outer try turns into None.
ConferenceParseDate(date) ==
    IF ~NameTruthy(date) THEN PyNone
    ELSE IF TryFormats(date.s, ConferenceFormats, 1) # PyNone
    THEN TryFormats(date.s, ConferenceFormats, 1)
    ELSE LET match == SearchDatePattern(date.s, 1)
         IN IF match.ok /\ ValidDate(match.y, match.m, match.d)
            THEN PyStr(StrftimeIso(match))
            ELSE PyNone

\* re.search of \b(19|20)\d{2}\b: the position of the leftmost match, 0
\* without one.
IsWordChar(c) ==
    \/ IsDigit(c)
    \/ c = "_"
    \/ \E n \in DOMAIN UpperLetters : c \in {UpperLetters[n], LowerLetters[n]}
MatchYearPattern(s, i) ==
    /\ TwoDigits(s, i) /\ TwoDigits(s, i + 2)
    /\ TwoDigitValue(s, i) \in {19, 20}
    /\ ~IsWordChar(At(s, i - 1))
    /\ ~IsWordChar(At(s, i + 4))
RECURSIVE SearchYearPattern(_, _)
SearchYearPattern(s, i) ==
    IF i > Len(s) THEN 0
    ELSE IF MatchYearPattern(s, i) THEN i
    ELSE SearchYearPattern(s, i + 1)

\* ResearchArticleParser._parse_date
ArticleParseDate(date) ==
    IF ~NameTruthy(date) THEN PyNone
    ELSE IF TryFormats(date.s, ArticleFormats, 1) # PyNone
    THEN TryFormats(date.s, ArticleFormats, 1)
    ELSE LET i == SearchYearPattern(date.s, 1)
         IN IF i # 0
            THEN PyStr(SubSeq(date.s, i, i + 3) \o <<"-", "0", "1", "-", "0", "1">>)
            ELSE PyNone

\* " - " in s, and s.split(" - ").
RangeSeparator == <<" ", "-", " ">>
RECURSIVE SplitOn(_, _, _)
SplitOn(s, separator, part) ==
    IF s = <<>> THEN <<part>>
    ELSE IF StartsWithAt(s, 1, separator)
    THEN <<part>> \o SplitOn(SubSeq(s, Len(separator) + 1, Len(s)), separator, <<>>)
    ELSE SplitOn(Tail(s), separator, Append(part, Head(s)))

\* A dict with the keys start and end.
DateRange(start, end) == [k |-> "dict", v |-> [start |-> start, end |-> end]]

\* ConferenceTracker._parse_date_range: unpacking a split of more or fewer
\* than two parts raises ValueError, which the except turns into the result
\* with both dates None.
ConferenceParseDateRange(date) ==
    IF ~NameTruthy(date) THEN DateRange(PyNone, PyNone)
    ELSE IF Contains(date.s, RangeSeparator)
    THEN LET parts == SplitOn(date.s, RangeSeparator, <<>>)
         IN IF Len(parts) # 2 THEN DateRange(PyNone, PyNone)
            ELSE DateRange(ConferenceParseDate(Text(parts[1])),
                           ConferenceParseDate(Text(parts[2])))
    ELSE DateRange(ConferenceParseDate(date), ConferenceParseDate(date))

\* Variant: the timeframe "all" is answered before the date is looked at.
ConferenceIsInTimeframe_AllFirst(date, frame, time) ==
    IF frame = "all" THEN TRUE
    ELSE IF date.k # "str" \/ date.v = <<>> THEN FALSE
    ELSE LET date_obj == DatetimeStrptime(date.v, IsoFormat)
         IN IF ~date_obj.ok THEN FALSE
            ELSE IF frame = "upcoming"
            THEN \/ Ordinal(date_obj) > Ordinal(time)
                 \/ Ordinal(date_obj) = Ordinal(time) /\ time.tod = 0
            ELSE IF frame = "this_month"
            THEN date_obj.y = time.y /\ date_obj.m = time.m
            ELSE date_obj.y = time.y

\* ConferenceTracker._is_in_timeframe.  The date is midnight of its day and
\* the clock has a time of day (tod = 0: midnight sharp, 1: later), so the
\* date is >= now when its day is later, or is today at midnight sharp.
ConferenceIsInTimeframe(date, frame, time) ==
    IF date.k # "str" \/ date.v = <<>> THEN FALSE
    ELSE LET date_obj == DatetimeStrptime(date.v, IsoFormat)
         IN IF ~date_obj.ok THEN FALSE
            ELSE IF frame = "upcoming"
            THEN \/ Ordinal(date_obj) > Ordinal(time)
                 \/ Ordinal(date_obj) = Ordinal(time) /\ time.tod = 0
            ELSE IF frame = "this_month"
            THEN date_obj.y = time.y /\ date_obj.m = time.m
            ELSE IF frame = "this_year" THEN date_obj.y = time.y
            ELSE TRUE

\* ResearchArticleParser._is_in_timeframe.  delta.days is the whole days of
\* now - date_obj, rounded down: the difference of the two days.
ArticleIsInTimeframe(date, frame, time) ==
    IF date.k # "str" \/ date.v = <<>> THEN FALSE
    ELSE LET date_obj == DatetimeStrptime(date.v, IsoFormat)
         IN IF ~date_obj.ok THEN FALSE
            ELSE IF frame = "recent"
            THEN Ordinal(time) - Ordinal(date_obj) <= RecentDays
            ELSE IF frame = "this_month"
            THEN date_obj.y = time.y /\ date_obj.m = time.m
            ELSE IF frame = "this_year" THEN date_obj.y = time.y
            ELSE TRUE

Timeframes == {"upcoming", "this_month", "this_year", "recent", "all"}

\* strftime with the given format; the listings also write day and month
\* without the leading zero.
CapitalMonthNames ==
    <<<<"J", "a", "n">>,
      <<"F", "e", "b">>,
      <<"M", "a", "r">>,
      <<"A", "p", "r">>,
      <<"M", "a", "y">>,
      <<"J", "u", "n">>,
      <<"J", "u", "l">>,
      <<"A", "u", "g">>,
      <<"S", "e", "p">>,
      <<"O", "c", "t">>,
      <<"N", "o", "v">>,
      <<"D", "e", "c">>>>
Unpadded(n) == IF n < 10 THEN <<Digits[n + 1]>> ELSE Pad2(n)
StrftimeDirective(date, directive, padded) ==
    CASE directive = "%Y" -> Pad4(date.y)
      [] directive = "%m" -> IF padded THEN Pad2(date.m) ELSE Unpadded(date.m)
      [] directive = "%d" -> IF padded THEN Pad2(date.d) ELSE Unpadded(date.d)
      [] directive = "%b" -> CapitalMonthNames[date.m]
      [] directive = "%H" -> <<"1", "0">>
      [] directive = "%M" -> <<"1", "1">>
      [] directive = "%S" -> <<"1", "2">>
      [] OTHER -> <<directive>>
RECURSIVE Strftime2(_, _, _)
Strftime2(date, format, padded) ==
    IF format = <<>> THEN <<>>
    ELSE StrftimeDirective(date, Head(format), padded)
         \o Strftime2(date, Tail(format), padded)

\* The formats the listings write their dates in.
ListingFormats ==
    <<<<"%b", " ", "%d", ",", " ", "%Y">>,
      <<"%d", " ", "%b", " ", "%Y">>,
      <<"%Y", "-", "%m", "-", "%d">>,
      <<"%m", "/", "%d", "/", "%Y">>,
      <<"%Y", "-", "%m", "-", "%d", "T", "%H", ":", "%M", ":", "%S", "Z">>>>

\* The days of the listings: around the clock's day (30 and 31 days before
\* it, the days next to it, the same month, other months and years), among
\* them days no month has.
ClockDay == [y |-> Year0, m |-> 3, d |-> 15]
ListingDays ==
    {[y |-> y, m |-> m, d |-> d] :
        y \in (Year0 - 1)..(Year0 + 1), m \in {2, 3, 12}, d \in {1, 13, 14, 15, 16, 31}}
RangeDays ==
    {[y |-> Year0, m |-> 3, d |-> 15], [y |-> Year0, m |-> 3, d |-> 17],
     [y |-> Year0, m |-> 2, d |-> 31]}

\* The date texts: absent, empty, a day in one of the formats, two or three
\* days joined by " - ", and texts that are no date.
DateTexts ==
    {NoName, Text(<<>>)}
    \cup {Text(Strftime2(date, ListingFormats[f], padded)) :
            date \in ListingDays, f \in DOMAIN ListingFormats, padded \in BOOLEAN}
    \cup {Text(Strftime2(d1, ListingFormats[f], TRUE) \o RangeSeparator
               \o Strftime2(d2, ListingFormats[f], TRUE)) :
            d1 \in RangeDays, d2 \in RangeDays, f \in 1..3}
    \cup {Text(Strftime2(d1, ListingFormats[1], TRUE) \o RangeSeparator
               \o Strftime2(d1, ListingFormats[1], TRUE) \o RangeSeparator
               \o Strftime2(d2, ListingFormats[1], TRUE)) :
            d1 \in RangeDays, d2 \in RangeDays}
    \cup {Text(<<"T", "B", "D">>),
          Text(<<"3", "/", "4", "/", "2", "5">>),
          Text(<<"1", "5", "-", "0", "3", "-", "2", "0", "2", "5">>),
          Text(<<"P", "u", "b", "l", "i", "s", "h", "e", "d", " ", "2", "0", "2", "4", ".">>),
          Text(<<"M", "a", "r", " ", "1", "5", " ", "-", " ", "1", "7", ",", " ", "2", "0", "2", "5">>)}
    \cup {Text(<<"T", "B", "D">> \o RangeSeparator \o Strftime2(ClockDay, ListingFormats[1], TRUE)),
          Text(Strftime2(ClockDay, ListingFormats[1], TRUE) \o RangeSeparator \o <<"T", "B", "D">>)}

InitDates ==
    /\ collector \in {"conference", "article"}
    /\ date_str \in DateTexts
    /\ timeframe = "all"
    /\ clock = NoClock
    /\ parsed_date = Unset
    /\ conf_dates = Unset
    /\ in_timeframe = Unset
    /\ SchedulerOff
    /\ MergeIdle
    /\ ParserIdle
    /\ ParametersIdle
    /\ ApiIdle

\* _parse_date on the text of a listing.
ParseDate ==
    /\ collector # "none"
    /\ parsed_date = Unset
    /\ parsed_date' = IF collector = "conference"
                      THEN ConferenceParseDate(date_str)
                      ELSE ArticleParseDate(date_str)
    /\ UNCHANGED <<collector, date_str, timeframe, clock, conf_dates, in_timeframe>>
    /\ UNCHANGED <<svars, mvars, pvars, qvars, avars>>

\* _parse_date_range on the text of a conference listing.
ParseDateRange ==
    /\ collector = "conference"
    /\ conf_dates = Unset
    /\ conf_dates' = ConferenceParseDateRange(date_str)
    /\ UNCHANGED <<collector, date_str, timeframe, clock, parsed_date, in_timeframe>>
    /\ UNCHANGED <<svars, mvars, pvars, qvars, avars>>

\* datetime.now() on the clock's day: at midnight sharp or later in the day.
Clocks ==
    {[y |-> ClockDay.y, m |-> ClockDay.m, d |-> ClockDay.d, tod |-> tod] : tod \in {0, 1}}

\* _is_in_timeframe(date_str, frame) on the start date of the conference, on
\* the publication date of the article; the function reads the clock.
IsInTimeframe(frame, time) ==
    /\ in_timeframe = Unset
    /\ timeframe' = frame
    /\ clock' = time
    /\ \/ /\ collector = "conference"
          /\ conf_dates # Unset
          /\ in_timeframe' =
                 PyBool(ConferenceIsInTimeframe(conf_dates.v.start, frame, time))
       \/ /\ collector = "article"
          /\ parsed_date # Unset
          /\ in_timeframe' = PyBool(ArticleIsInTimeframe(parsed_date, frame, time))
    /\ UNCHANGED <<collector, date_str, parsed_date, conf_dates>>
    /\ UNCHANGED <<svars, mvars, pvars, qvars, avars>>

NextDates ==
    \/ ParseDate
    \/ ParseDateRange
    \/ \E frame \in Timeframes, time \in Clocks : IsInTimeframe(frame, time)

SpecDates == InitDates /\ [][NextDates]_vars

\* The parsers together: the dates of a listing or the parameters of a todo
\* item.
InitParsers == InitDates \/ InitParameters
NextParsers == NextDates \/ NextParameters
SpecParsers == InitParsers /\ [][NextParsers]_vars

\* ------------------------------------------------------------- Notion API
\* The methods _make_request sends, and one it does not support.
Methods == {"GET", "POST", "PATCH", "DELETE"}
RequestedMethods == Methods \cup {"PUT"}

\* A rate-limit header of a response: absent, a number, or text int() refuses.
NoHeader == [k |-> "none", v |-> 0]
IntHeader(n) == [k |-> "int", v |-> n]
BadHeader == [k |-> "bad", v |-> 0]

\* What requests.get/post/patch/delete does: it raises (no connection, a
\* timeout), or it returns a response with a status, the two rate-limit
\* headers and a body.  The body is no JSON (the page of a gateway), a JSON
\* array, or a JSON object, of which the keys results, has_more and
\* next_cursor are kept: has_more is absent ("none"), "true" or "false",
\* next_cursor is "" when absent or null.
NotJson == [k |-> "text", results |-> <<>>, has_more |-> "none", next_cursor |-> ""]
JsonArray == [k |-> "array", results |-> <<>>, has_more |-> "none", next_cursor |-> ""]
Object(items, more, cursor) ==
    [k |-> "object", results |-> items, has_more |-> more, next_cursor |-> cursor]
ConnectionError ==
    [k |-> "raise", status_code |-> 0, remaining |-> NoHeader, reset |-> NoHeader,
     body |-> NotJson]
Response(status_code, remaining, reset, body) ==
    [k |-> "response", status_code |-> status_code, remaining |-> remaining,
     reset |-> reset, body |-> body]

\* What a call returns or raises.  A dict is kept by its keys: error, and
\* status_code (0 when the dict has no such key), and for the body of a
\* response results, has_more and next_cursor.  response.json() of a JSON
\* array is a list.
Dict(error, status_code, body) ==
    [k |-> "dict", error |-> error, status_code |-> status_code,
     results |-> body.results, has_more |-> body.has_more, next_cursor |-> body.next_cursor]
List ==
    [k |-> "list", error |-> FALSE, status_code |-> 0,
     results |-> <<>>, has_more |-> "none", next_cursor |-> ""]
Raises(exception) ==
    [k |-> exception, error |-> FALSE, status_code |-> 0,
     results |-> <<>>, has_more |-> "none", next_cursor |-> ""]
IsRaised(value) == value.k \notin {"dict", "list", "unset"}

\* NotionAPI._handle_rate_limits: the time slept before the call.
HandleRateLimits(a) ==
    IF a.rate_limit_remaining <= 1 /\ a.time < a.rate_limit_reset
    THEN a.rate_limit_reset - a.time + 1
    ELSE 0

\* NotionAPI._update_rate_limits: the two fields after it, and whether int()
\* raised; the remaining quota is assigned before the reset header is read.
UpdateRateLimits(a, response) ==
    LET remaining == IF response.remaining.k = "int" THEN response.remaining.v
                     ELSE a.rate_limit_remaining
        reset == IF response.reset.k = "int" THEN response.reset.v
                 ELSE a.rate_limit_reset
    IN IF response.remaining.k = "bad"
       THEN [raised |-> TRUE, rate_limit_remaining |-> a.rate_limit_remaining,
             rate_limit_reset |-> a.rate_limit_reset]
       ELSE IF response.reset.k = "bad"
       THEN [raised |-> TRUE, rate_limit_remaining |-> remaining,
             rate_limit_reset |-> a.rate_limit_reset]
       ELSE [raised |-> FALSE, rate_limit_remaining |-> remaining,
             rate_limit_reset |-> reset]

\* The try block of _make_request: what it returns or raises.
TryRequest(a, method, outcome) ==
    IF method \notin Methods THEN Raises("ValueError")
    ELSE IF outcome.k = "raise" THEN Raises("RequestException")
    ELSE IF UpdateRateLimits(a, outcome).raised THEN Raises("ValueError")
    ELSE IF outcome.status_code >= ErrorStatus THEN Dict(TRUE, outcome.status_code, NotJson)
    ELSE IF outcome.body.k = "text" THEN Raises("JSONDecodeError")
    ELSE IF outcome.body.k = "array" THEN List
    ELSE Dict(FALSE, 0, outcome.body)

\* The try block with its "except Exception": what _make_request returns.
RequestResult(a, method, outcome) ==
    IF IsRaised(TryRequest(a, method, outcome))
    THEN Dict(TRUE, 0, NotJson)
    ELSE TryRequest(a, method, outcome)

\* The answers to a call made at time t: no answer, or a response with or
\* without rate-limit headers; the reset time named is t or later.
Outcomes(t) ==
    {ConnectionError}
    \cup {Response(status_code, remaining, reset, body) :
            status_code \in {200, 429},
            remaining \in {NoHeader, IntHeader(0), IntHeader(1), BadHeader},
            reset \in {NoHeader, IntHeader(t + 5), BadHeader},
            body \in {NotJson, JsonArray, Object(<<>>, "none", "")}}

\* NotionAPI.__init__ at time 0; no other part of the program is modelled.
InitApi ==
    /\ api = [on |-> TRUE, rate_limit_remaining |-> DefaultRemaining,
              rate_limit_reset |-> DefaultResetSeconds, time |-> 0,
              calls |-> 0, wire |-> <<>>, last |-> NoCall]
    /\ pager = NoPager
    /\ SchedulerOff
    /\ MergeIdle
    /\ ParserIdle
    /\ ParametersIdle
    /\ DatesIdle

\* One call of _make_request, from _handle_rate_limits to the return; the
\* clock moves by the time slept and by the time the call and the caller
\* take.  wire lists the requests sent, by the number of the call.
MakeRequest(method, outcome, elapsed) ==
    /\ api.on
    /\ api.calls < MaxCalls
    /\ LET sleep_time == HandleRateLimits(api)
           sent == method \in Methods
           limits == IF sent /\ outcome.k = "response"
                     THEN UpdateRateLimits(api, outcome)
                     ELSE [raised |-> FALSE,
                           rate_limit_remaining |-> api.rate_limit_remaining,
                           rate_limit_reset |-> api.rate_limit_reset]
       IN api' = [on |-> TRUE,
                  rate_limit_remaining |-> limits.rate_limit_remaining,
                  rate_limit_reset |-> limits.rate_limit_reset,
                  time |-> api.time + sleep_time + elapsed,
                  calls |-> api.calls + 1,
                  wire |-> IF sent THEN Append(api.wire, api.calls + 1) ELSE api.wire,
                  last |-> [method |-> method,
                            rate_limit_remaining |-> api.rate_limit_remaining,
                            rate_limit_reset |-> api.rate_limit_reset,
                            time |-> api.time,
                            sleep_time |-> sleep_time,
                            sent |-> sent,
                            failed |-> sent /\ outcome.k = "raise",
                            status_code |-> IF sent THEN outcome.status_code ELSE 0,
                            result |-> RequestResult(api, method, outcome)]]
    /\ UNCHANGED pager
    /\ UNCHANGED <<svars, mvars, pvars, qvars, dvars>>

NextApi ==
    \E method \in RequestedMethods, elapsed \in {0, 10} :
        \E outcome \in Outcomes(api.time + HandleRateLimits(api)) :
            MakeRequest(method, outcome, elapsed)

SpecApi == InitApi /\ [][NextApi]_vars

\* ------------------------------------------------- Notion pagination
\* What the store answers to a query of get_all_database_items: no answer, an
\* error status, a body that is no JSON or no object, or a page with up to two
\* items, has_more absent, true or false, and a cursor or none.
QueryOutcomes ==
    {ConnectionError,
     Response(500, NoHeader, NoHeader, NotJson),
     Response(200, NoHeader, NoHeader, NotJson),
     Response(200, NoHeader, NoHeader, JsonArray)}
    \cup {Response(200, NoHeader, NoHeader, Object(items, more, cursor)) :
            items \in {<<>>, <<1>>, <<1, 2>>},
            more \in {"none", "true", "false"},
            cursor \in {"", "c"}}

\* NotionAPI.query_database: a POST through _make_request.
QueryDatabase(outcome) == RequestResult(api, "POST", outcome)

\* The loop of get_all_database_items goes on after this answer.
GoesOn(response) ==
    /\ response.k = "dict"
    /\ ~response.error
    /\ response.has_more = "true"
    /\ response.next_cursor # ""

\* NotionHelper.get_all_database_items is called on a new client.
InitPager ==
    /\ api = [on |-> TRUE, rate_limit_remaining |-> DefaultRemaining,
              rate_limit_reset |-> DefaultResetSeconds, time |-> 0,
              calls |-> 0, wire |-> <<>>, last |-> NoCall]
    /\ pager = [on |-> TRUE, all_items |-> <<>>, has_more |-> TRUE, start_cursor |-> "",
                fetched |-> <<>>, returned |-> FALSE, raised |-> FALSE]
    /\ SchedulerOff
    /\ MergeIdle
    /\ ParserIdle
    /\ ParametersIdle
    /\ DatesIdle

\* Variant: an error answer makes the function return no items.
GetPage_ErrorDropsItems(outcome) ==
    /\ pager.on
    /\ ~pager.returned
    /\ ~pager.raised
    /\ pager.has_more
    /\ Len(pager.fetched) < MaxPages
    /\ LET response == QueryDatabase(outcome)
       IN pager' =
            IF response.k = "list"
            THEN [pager EXCEPT !.fetched = Append(@, response), !.raised = TRUE]
            ELSE IF response.error
            THEN [pager EXCEPT !.fetched = Append(@, response), !.all_items = <<>>,
                               !.returned = TRUE]
            ELSE [pager EXCEPT !.fetched = Append(@, response),
                               !.all_items = @ \o response.results,
                               !.has_more = (response.has_more = "true"),
                               !.start_cursor = response.next_cursor,
                               !.returned = ~GoesOn(response)]
    /\ UNCHANGED api
    /\ UNCHANGED <<svars, mvars, pvars, qvars, dvars>>

\* One round of the loop of get_all_database_items, from the query to the
\* break or the end of the body, with the return that follows a break.  A
\* list has no get(): AttributeError leaves the function.  fetched lists the
\* answers received.
GetPage(outcome) ==
    /\ pager.on
    /\ ~pager.returned
    /\ ~pager.raised
    /\ pager.has_more
    /\ Len(pager.fetched) < MaxPages
    /\ LET response == QueryDatabase(outcome)
       IN pager' =
            IF response.k = "list"
            THEN [pager EXCEPT !.fetched = Append(@, response), !.raised = TRUE]
            ELSE IF response.error
            THEN [pager EXCEPT !.fetched = Append(@, response), !.returned = TRUE]
            ELSE [pager EXCEPT !.fetched = Append(@, response),
                               !.all_items = @ \o response.results,
                               !.has_more = (response.has_more = "true"),
                               !.start_cursor = response.next_cursor,
                               !.returned = ~GoesOn(response)]
    /\ UNCHANGED api
    /\ UNCHANGED <<svars, mvars, pvars, qvars, dvars>>

\* The store answers at last with something that is no page to go on from:
\* the answer to query number MaxPages is one of these.
NextPager ==
    \E outcome \in QueryOutcomes :
        /\ Len(pager.fetched) + 1 = MaxPages => ~GoesOn(QueryDatabase(outcome))
        /\ GetPage(outcome)

\* The interpreter runs the loop on: a round that can be made is made.
SpecPager == InitPager /\ [][NextPager]_vars /\ WF_vars(NextPager)

\* ------------------------------------------------ properties: scheduler
RecurringFrequencies == {"Daily", "Weekly", "Monthly", "Quarterly", "Yearly"}
InDue(id) == \E j \in DOMAIN due : due[j].id = id
Updated == upd # <<>>
Call == upd[1]

\* C1: every status write follows Not Started -> In Progress,
\* Error -> In Progress, In Progress -> Complete or In Progress -> Error;
\* a task already In Progress (or Complete) is never moved to In Progress.
C1_WritesFollowStateMachine ==
    Updated =>
        <<Call.task.status, Call.status>> \in
            {<<"Not Started", "In Progress">>, <<"Error", "In Progress">>,
             <<"In Progress", "Complete">>, <<"In Progress", "Error">>}

\* C2: Complete and Error are not terminal: a recurring task in either
\* status whose next_run has elapsed (next_run <= now) when a pass loads the
\* list is selected by that pass.
C2_ElapsedIsReselected ==
    \A i \in DOMAIN tasks :
        ( /\ tasks[i].status \in {"Complete", "Error"}
          /\ tasks[i].frequency \in RecurringFrequencies
          /\ tasks[i].next_run.k = "date"
          /\ tasks[i].next_run.d <= now ) => InDue(i)

\* C3: the due list of a pass is exactly, in list order, the tasks that are
\* not Complete and whose next_run is absent, malformed or not after now.
C3_Eligible(task) ==
    /\ task.status # "Complete"
    /\ \/ task.next_run.k \in {"none", "bad"}
       \/ task.next_run.d <= now
C3_DueIsExactlyEligible ==
    pc # "idle" => due = SelectSeq(tasks, C3_Eligible)
C3_Witness ==
    /\ pc = "loop"
    /\ \E i, j \in DOMAIN tasks :
          /\ tasks[i].next_run.k = "date" /\ tasks[i].next_run.d = now + 1 /\ ~InDue(i)
          /\ tasks[j].next_run.k = "none" /\ InDue(j)

C5_OnceCompleteHasNoNextRun ==
    (Updated /\ Call.task.frequency = "Once" /\ Call.status = "Complete")
        => db[Call.id]["Next Run"] = NoDate
\* C5 as amended: moving a Once task to Complete writes no next_run; the
\* record keeps the next_run it had (none if it had none).
C5_OnceCompleteWritesNoNextRun ==
    (Updated /\ Call.task.frequency = "Once" /\ Call.status = "Complete")
        => /\ "Next Run" \notin DOMAIN Call.properties
           /\ db[Call.id]["Next Run"] = Call.task.next_run
C5_Witness ==
    /\ Updated /\ Call.task.frequency = "Once" /\ Call.status = "Complete"
    /\ Call.task.next_run = IsoDate(Day0 - 1)
    /\ db[Call.id]["Status"] = "Complete"

\* C6 as claimed: moving a Once task to Error or In Progress writes a
\* computed next_run.
C6_OnceErrorWritesNextRun ==
    (Updated /\ Call.task.frequency = "Once" /\ Call.status \in {"Error", "In Progress"})
        => "Next Run" \in DOMAIN Call.properties
\* C6 as amended: moving a Once task to Error or In Progress writes no
\* next_run either; the record keeps the next_run it had.
C6_OnceErrorWritesNoNextRun ==
    (Updated /\ Call.task.frequency = "Once" /\ Call.status \in {"Error", "In Progress"})
        => /\ "Next Run" \notin DOMAIN Call.properties
           /\ db[Call.id]["Next Run"] = Call.task.next_run
C6_Witness ==
    /\ Updated /\ Call.task.frequency = "Once" /\ Call.status = "Error"
    /\ db[Call.id]["Status"] = "Error"
    /\ db[Call.id]["Next Run"] = NoDate

\* C7: a transition of a Daily, Weekly, Monthly, Quarterly or Yearly task at
\* day T, to any status, writes next_run = T + 1, 7, 30, 90 or 365 days and
\* last_run = T.
C7_Days(frequency) ==
    CASE frequency = "Daily" -> 1
      [] frequency = "Weekly" -> 7
      [] frequency = "Monthly" -> 30
      [] frequency = "Quarterly" -> 90
      [] frequency = "Yearly" -> 365
C7_RecurringOffsets ==
    (Updated /\ Call.task.frequency \in RecurringFrequencies)
        => /\ "Next Run" \in DOMAIN Call.properties
           /\ Call.properties["Next Run"] = IsoDate(now + C7_Days(Call.task.frequency))
           /\ Call.properties["Last Run"] = IsoDate(now)
           /\ db[Call.id]["Next Run"] = IsoDate(now + C7_Days(Call.task.frequency))
           /\ db[Call.id]["Last Run"] = IsoDate(now)
C7_Witness ==
    /\ Updated /\ Call.task.frequency = "Weekly" /\ Call.status = "Complete"
    /\ db[Call.id]["Next Run"] = IsoDate(now + 7)
    /\ db[Call.id]["Last Run"] = IsoDate(now)

\* C8: every transition sets last_run to the current date, so every task a
\* pass has executed has last_run equal to the date of the pass.
C8_LastRunIsToday ==
    /\ Updated => /\ "Last Run" \in DOMAIN Call.properties
                  /\ Call.properties["Last Run"] = IsoDate(now)
                  /\ db[Call.id]["Last Run"] = IsoDate(now)
    /\ \A k \in DOMAIN results : db[results[k].task_id]["Last Run"] = IsoDate(now)
C8_Witness ==
    /\ pc = "sleep"
    /\ Len(results) = NumTasks
    /\ \E k \in DOMAIN results : results[k].status = "Error"
    /\ \E k \in DOMAIN results : results[k].status = "Complete"

\* C9: a result reference supplied to a transition is attached to the task,
\* and no step ever clears the reference of a task that has one.
C9_Step ==
    /\ \A i \in DOMAIN db :
          PageTruthy(db[i]["Result Page"]) => PageTruthy(db'[i]["Result Page"])
    /\ (upd' # <<>> /\ PageTruthy(upd'[1].result_page_id))
          => db'[upd'[1].id]["Result Page"] = upd'[1].result_page_id
C9_ResultPageKept == [][C9_Step]_vars
C9_Witness ==
    /\ Updated /\ Call.status = "Error" /\ ~PageTruthy(Call.result_page_id)
    /\ PageTruthy(Call.task.result_page)
    /\ db[Call.id]["Result Page"] = Call.task.result_page

\* The pass is in its for loop, or run() has returned its results.
InPass == pc \in {"loop", "exec"}
PassReturned == pc = "sleep" /\ idx > Len(due)
StoredStatus(id) == db[id]["Status"]

\* C15: a task whose executor fails ends in status Error and its result
\* entry carries the failure message; the pass goes on with the later due
\* tasks and keeps the earlier entries: in the loop there is one entry, in
\* order, for each due task before the current one, and run() returns one
\* entry for every due task.
C15_FailureDoesNotAbort ==
    /\ (InPass \/ PassReturned) =>
          /\ Len(results) = idx - 1
          /\ \A k \in DOMAIN results :
                /\ results[k].task_id = due[k].id
                /\ results[k].status = "Error" =>
                      /\ results[k].message = "Error executing task"
                      /\ StoredStatus(due[k].id) = "Error"
    /\ PassReturned => Len(results) = Len(due)
C15_Witness ==
    /\ PassReturned
    /\ Len(due) = 2
    /\ results[1].status = "Error" /\ StoredStatus(due[1].id) = "Error"
    /\ results[2].status = "Complete"

\* C16: a task whose execution met a network or persistence failure ends
\* the pass in Error, never in Complete; so when the result store failed to
\* publish the result, which leaves the result entry without a page, the
\* entry and the stored status are Error.
C16_StoreFailureIsError ==
    (InPass \/ PassReturned) =>
        \A k \in DOMAIN results :
            ~PageTruthy(results[k].result_page_id) =>
                /\ results[k].status = "Error"
                /\ StoredStatus(results[k].task_id) = "Error"

\* C17: a pass processes its due tasks strictly one at a time.  At every
\* point of the loop the due tasks before the current one have their final
\* status, the due tasks after it are as the pass read them, with no write
\* yet, and the current one is as read until its executor is started and In
\* Progress while it runs: never two tasks moved to In Progress by the pass
\* without a final status.
AsRead(j) == ParseTodoItem(due[j].id, db[due[j].id]) = due[j]
C17_OneTaskAtATime ==
    InPass =>
        \A j \in DOMAIN due :
            /\ j < idx => StoredStatus(due[j].id) \in {"Complete", "Error"}
            /\ j > idx => AsRead(j)
            /\ (j = idx /\ pc = "loop") => AsRead(j)
            /\ (j = idx /\ pc = "exec") => StoredStatus(due[j].id) = "In Progress"
C17_Witness ==
    /\ pc = "exec" /\ passes = 1
    /\ Len(due) = 2 /\ idx = 2
    /\ StoredStatus(due[1].id) \in {"Complete", "Error"}
    /\ due[2].status = "Not Started"
    /\ StoredStatus(due[2].id) = "In Progress"

\* C18: every task a pass has moved to In Progress has been moved to Complete
\* or Error, the status of its result entry, when the pass turns to the next
\* task and when run() returns, whether the executor returned, failed or the
\* kind is unsupported; a task is In Progress by the pass only while its
\* executor runs.
C18_StartedIsFinished ==
    /\ (pc = "loop" \/ PassReturned) =>
          \A j \in DOMAIN due :
              j < idx => /\ StoredStatus(due[j].id) \in {"Complete", "Error"}
                         /\ StoredStatus(due[j].id) = results[j].status
    /\ (pc = "loop" \/ PassReturned) =>
          \A i \in DOMAIN db :
              StoredStatus(i) = "In Progress" =>
                  \/ ~InDue(i)
                  \/ \E j \in DOMAIN due : j >= idx /\ due[j].id = i /\ AsRead(j)
C18_Witness ==
    /\ PassReturned
    /\ Len(due) = 2
    /\ due[1].type = "unknown" /\ StoredStatus(due[1].id) = "Error"
    /\ due[2].type \in SupportedTypes
    /\ \A i \in DOMAIN db : StoredStatus(i) # "In Progress"

\* C19: within one pass the executor of each due task is invoked at most
\* once, also when it fails.  The due list names no task twice; an executor
\* is started only from the loop, for the current task, which has no result
\* entry yet; when it returns or fails the loop moves to the next task, and
\* the position never moves back during the pass.  A failed task is executed
\* again only by a later pass that selects it.
C19_Step ==
    /\ \A j, k \in DOMAIN due' : due'[j].id = due'[k].id => j = k
    /\ pc' = "exec" =>
          /\ pc = "loop"
          /\ idx' = idx /\ due' = due /\ passes' = passes
          /\ Len(results') = idx' - 1
    /\ (pc = "exec" /\ pc' = "loop") =>
          /\ idx' = idx + 1 /\ due' = due /\ passes' = passes
          /\ Len(results') = idx
    /\ (InPass /\ InPass') => (idx' >= idx /\ due' = due /\ passes' = passes)
C19_NoRetryInPass == [][C19_Step]_vars
C19_Witness ==
    /\ pc = "exec" /\ passes = 2
    /\ Call.task.status = "Error" /\ Call.status = "In Progress"
    /\ Call.task.last_run = IsoDate(Day0)

\* ----------------------------------------------- properties: reconcilers
RecordKey(record) ==
    IF reconciler = "conference" THEN ConferenceKey(record) ELSE ArticleKey(record)
RecordName(record) ==
    IF reconciler = "conference" THEN record.name ELSE record.title
InputWithKey(key) == {i \in DOMAIN records : RecordKey(records[i]) = key}
OutputWithKey(key) == {i \in DOMAIN unique : RecordKey(Values(unique)[i]) = key}

\* C10: once merge has returned, every identity key of a named input record
\* has exactly one retained record, and the topic set of that record is the
\* union of the topic sets of all input records with the key.
C10_OnePerKeyWithTopicUnion ==
    merged =>
        \A i \in DOMAIN records :
            RecordName(records[i]) # "" =>
                LET key == RecordKey(records[i]) IN
                /\ Cardinality(OutputWithKey(key)) = 1
                /\ \A o \in OutputWithKey(key) :
                      Values(unique)[o].topics =
                          UNION {records[j].topics : j \in InputWithKey(key)}

\* C11: merge is idempotent, for both reconcilers: merging the list a merge
\* returned gives that list back, the same records in the same order with
\* the same topic sets.
C11_MergeIsIdempotent ==
    (merged /\ remerge) => Values(unique) = records
C11_Witness ==
    /\ merged /\ remerge
    /\ Len(unique) = 1
    /\ Values(unique)[1].topics = Topics
    /\ Values(unique) = records

\* C12: in the article merge a record with a non-empty summary survives
\* against the same-key records that have none, whichever arrives first and
\* however many fields the others have filled: the retained record of the
\* key has a summary, and it is that record (its topics apart) when it is the
\* only one of the key with a summary.
HasSummary(article) == TextFilled(article.summary)
C12_SummarySurvives ==
    (merged /\ reconciler = "article") =>
        \A i \in DOMAIN records :
            (records[i].title # "" /\ HasSummary(records[i])) =>
                \A o \in OutputWithKey(ArticleKey(records[i])) :
                    LET kept == Values(unique)[o]
                        same == InputWithKey(ArticleKey(records[i]))
                    IN /\ HasSummary(kept)
                       /\ (\A j \in same \ {i} : ~HasSummary(records[j]))
                             => kept = [records[i] EXCEPT !.topics = kept.topics]
C12_Witness ==
    /\ merged /\ reconciler = "article" /\ ~remerge
    /\ Len(records) = 2 /\ Len(unique) = 1
    /\ HasSummary(records[1]) /\ ~HasSummary(records[2])
    /\ ArticleCount(records[2]) > ArticleCount(records[1])
    /\ Values(unique)[1].summary = records[1].summary
    /\ Values(unique)[1].source = records[1].source

\* The identity key as the specification words it: the case-normalized name
\* with the primary date (start date of a conference, publication date of
\* an article).
PrimaryDate(record) ==
    IF reconciler = "conference" THEN record.start_date ELSE record.publication_date
NormalizedKey(record) == <<Lower(RecordName(record)), PrimaryDate(record)>>
OutputWithNormalizedKey(nkey) ==
    {o \in DOMAIN unique : NormalizedKey(Values(unique)[o]) = nkey}

\* C13: two named records whose names differ only in letter case and whose
\* primary dates are equal have the same identity key, and merge retains one
\* record for them.
C13_CaseNormalizedKey ==
    merged =>
        \A i, j \in DOMAIN records :
            ( /\ RecordName(records[i]) # ""
              /\ RecordName(records[i]) # RecordName(records[j])
              /\ Lower(RecordName(records[i])) = Lower(RecordName(records[j]))
              /\ PrimaryDate(records[i]) = PrimaryDate(records[j]) )
            => /\ RecordKey(records[i]) = RecordKey(records[j])
               /\ Cardinality(OutputWithNormalizedKey(NormalizedKey(records[i]))) <= 1

C20_Matches(kind) ==
    \E t \in DOMAIN TaskTypeTable :
        /\ TaskTypeTable[t].type = kind
        /\ \E n \in DOMAIN TaskTypeTable[t].keywords :
              Contains(LowerCase(task_name.s), LowerCase(TaskTypeTable[t].keywords[n]))
C20_FirstKind ==
    IF C20_Matches("conference") THEN "conference"
    ELSE IF C20_Matches("research") THEN "research"
    ELSE IF C20_Matches("project") THEN "project"
    ELSE IF C20_Matches("stakeholder") THEN "stakeholder"
    ELSE "unknown"
C20_ClassifyFirstKind ==
    Truthy(task_type) =>
        /\ task_type = C20_FirstKind
        /\ task_name = Text(TrackAIConferences) => task_type = "conference"
        /\ task_name = Text(FindResearchOnGameAI) => task_type = "research"
        /\ task_name = Text(QuarterlyBudgetReview) => task_type = "unknown"
C20_Witness ==
    /\ task_type = "conference"
    /\ C20_Matches("research")
    /\ C20_Matches("conference")
    /\ \E n \in DOMAIN task_name.s : task_name.s[n] \in {"R", "C"}

\* ---------------------------------- properties: task parser, parameters
\* The Parameters text is present and json.loads makes a dict of it.
ParsesAsObject(text) == NameTruthy(text) /\ JsonLoads(text.s).k = "dict"
\* parse_todo_item has parsed the parameters.
Parsed == parameters # Unset

\* C21: the parsed value is returned verbatim exactly when the Parameters
\* text parses as an object; for every other text (absent, not JSON, or JSON
\* that is not an object) the defaults derived from name and type are
\* returned, so the parameters of a task are always a string-keyed map.
\* Stated for the items that have a name, for which the defaults exist.
C21_VerbatimOnlyForObjects ==
    (Parsed /\ task_name.k = "text") =>
        /\ ParsesAsObject(params_str) => parameters = JsonLoads(params_str.s)
        /\ ~ParsesAsObject(params_str) =>
               parameters = InferParameters(task_name, task_type)
        /\ parameters.k = "dict"

\* ------------------------------------------- properties: date handling
\* None, or a date in ISO format.
IsDateOrNone(value) ==
    \/ value = PyNone
    \/ value.k = "str" /\ DatetimeStrptime(value.v, IsoFormat).ok
\* The text holds a day that does not exist, in digits: what datetime()
\* refuses with ValueError.
NoSuchDay(text) ==
    /\ NameTruthy(text)
    /\ SearchDatePattern(text.s, 1).ok
    /\ ~ValidDate(SearchDatePattern(text.s, 1).y, SearchDatePattern(text.s, 1).m,
                  SearchDatePattern(text.s, 1).d)
\* The Parameters text is present and is not JSON.
Malformed(text) == NameTruthy(text) /\ JsonLoads(text.s).k = "raise"

C22_WitnessParameters ==
    /\ Parsed
    /\ Malformed(params_str)
    /\ NameTruthy(task_name)
    /\ task_type = "conference"
    /\ parameters.k = "dict"

\* The literal formats: "Mon D, YYYY", "D Mon YYYY", "YYYY-MM-DD" and
\* "M/D/YYYY".
LiteralFormats == {ListingFormats[f] : f \in 1..4}
MonthDayYear == ListingFormats[4]
\* The text is the day written in the format, with or without leading zeros.
Renders(text, day, format) ==
    \E padded \in BOOLEAN : text = Text(Strftime2(day, format, padded))

\* C23: for each of the four literal formats and every valid day,
\* _parse_date of the day written in the format is that day; in particular
\* a month/day/year text is never read as day-month-year by the fallback.
C23_RoundTrip ==
    (collector = "conference" /\ parsed_date # Unset) =>
        \A day \in ListingDays, format \in LiteralFormats :
            (ValidDate(day.y, day.m, day.d) /\ Renders(date_str, day, format)) =>
                parsed_date = PyStr(StrftimeIso(day))
\* March 1st written month/day/year, which read as day-month-year would be
\* January 3rd, was parsed as March 1st.
C23_Witness ==
    /\ collector = "conference"
    /\ Renders(date_str, [y |-> Year0, m |-> 3, d |-> 1], MonthDayYear)
    /\ parsed_date = PyStr(StrftimeIso([y |-> Year0, m |-> 3, d |-> 1]))

\* The positions at which the separator " - " starts in the text.
SeparatorsAt(chars) ==
    {i \in 1..Len(chars) : StartsWithAt(chars, i, RangeSeparator)}

\* C24: when the text contains the separator " - ", the start is _parse_date
\* of the left side and the end is _parse_date of the right side, each on
\* its own; without a separator both are _parse_date of the text.  With
\* several separators in the text, any one of them may be the one that
\* divides it.
C24_SidesParsedIndependently ==
    conf_dates # Unset =>
        IF NameTruthy(date_str) /\ Contains(date_str.s, RangeSeparator)
        THEN \E i \in SeparatorsAt(date_str.s) :
                /\ conf_dates.v.start =
                       ConferenceParseDate(Text(SubSeq(date_str.s, 1, i - 1)))
                /\ conf_dates.v.end =
                       ConferenceParseDate(Text(SubSeq(date_str.s, i + Len(RangeSeparator),
                                                       Len(date_str.s))))
        ELSE /\ conf_dates.v.start = ConferenceParseDate(date_str)
             /\ conf_dates.v.end = ConferenceParseDate(date_str)

\* _is_in_timeframe has answered; the date it was given.
Checked == in_timeframe # Unset
CheckedDate == IF collector = "conference" THEN conf_dates.v.start ELSE parsed_date
\* The day of an ISO date.
DayOf(date) == DatetimeStrptime(date.v, IsoFormat)

\* C25: _is_in_timeframe of an absent date is false for every timeframe,
\* "all" included; of a date that is present, with the timeframe this_year,
\* it is true exactly when the year of the date is the year of the clock.
C25_AbsentNeverThisYearByYear ==
    Checked =>
        /\ CheckedDate = PyNone => in_timeframe = PyBool(FALSE)
        /\ (CheckedDate # PyNone /\ timeframe = "this_year") =>
               in_timeframe = PyBool(DayOf(CheckedDate).y = clock.y)
\* An absent date was checked against the timeframe "all".
C25_Witness ==
    /\ Checked
    /\ CheckedDate = PyNone
    /\ timeframe = "all"
    /\ in_timeframe = PyBool(FALSE)
\* A date of another year was checked against this_year.
C25_WitnessOtherYear ==
    /\ Checked
    /\ CheckedDate # PyNone
    /\ timeframe = "this_year"
    /\ DayOf(CheckedDate).y # clock.y
    /\ in_timeframe = PyBool(FALSE)

\* The whole days from the date to the clock's day; negative for a date
\* after it.
DaysAgo(date) == Ordinal(clock) - Ordinal(DayOf(date))

\* C26: for a date that is present, _is_in_timeframe(date, "recent") is true
\* exactly when the date is at most 30 days back and not in the future, in
\* the check of either collector.
C26_RecentIsLastThirtyDays ==
    (Checked /\ CheckedDate # PyNone /\ timeframe = "recent") =>
        in_timeframe = PyBool(0 <= DaysAgo(CheckedDate) /\ DaysAgo(CheckedDate) <= RecentDays)

\* C27: for a date that is present, _is_in_timeframe(date, "upcoming") is
\* true exactly when the date (midnight of its day) is not before the clock,
\* in the check of either collector: a date before now is never upcoming.
C27_UpcomingIsNotBeforeNow ==
    (Checked /\ CheckedDate # PyNone /\ timeframe = "upcoming") =>
        in_timeframe = PyBool(\/ DaysAgo(CheckedDate) < 0
                              \/ DaysAgo(CheckedDate) = 0 /\ clock.tod = 0)

\* ------------------------------------- properties: reconcilers, completeness
\* The completeness score: the attributes whose value is neither null nor
\* the empty string.
ConferenceScore(conf) ==
    (IF TextFilled(conf.name) THEN 1 ELSE 0)
    + (IF TextFilled(conf.url) THEN 1 ELSE 0)
    + (IF conf.start_date # NoDate THEN 1 ELSE 0)
    + (IF conf.end_date # NoDate THEN 1 ELSE 0)
    + (IF TextFilled(conf.location) THEN 1 ELSE 0)
    + (IF conf.submission_deadline # NoDate THEN 1 ELSE 0)
    + (IF TextFilled(conf.source) THEN 1 ELSE 0)
    + 1
ArticleScore(article) ==
    (IF TextFilled(article.title) THEN 1 ELSE 0)
    + (IF TextFilled(article.url) THEN 1 ELSE 0)
    + 1
    + (IF article.publication_date # NoDate THEN 1 ELSE 0)
    + (IF TextFilled(article.summary) THEN 1 ELSE 0)
    + (IF TextFilled(article.source) THEN 1 ELSE 0)
    + 1
    + (IF TextFilled(article.publication) THEN 1 ELSE 0)
Score(record) ==
    IF reconciler = "conference" THEN ConferenceScore(record) ELSE ArticleScore(record)
\* The challenger is strictly more complete than the representative: for
\* articles a summary on one side only decides, otherwise the higher score.
StrictlyMoreComplete(challenger, representative) ==
    IF reconciler = "article" /\ HasSummary(challenger) # HasSummary(representative)
    THEN HasSummary(challenger)
    ELSE Score(challenger) > Score(representative)
\* The loop is about to compare records[pos] with the representative of its
\* key.
Comparing ==
    /\ reconciler # "none"
    /\ ~merged
    /\ pos <= Len(records)
    /\ HasKey(unique, RecordKey(records[pos]))

\* C28: a representative is replaced only by a strictly more complete
\* challenger; a challenger that is equally or less complete leaves the
\* first-seen record in place, with the challenger's topics added to it.
C28_Step ==
    (Comparing /\ pos' = pos + 1
     /\ ~StrictlyMoreComplete(records[pos], Lookup(unique, RecordKey(records[pos])))) =>
        Lookup(unique', RecordKey(records[pos])) =
            [Lookup(unique, RecordKey(records[pos])) EXCEPT
                !.topics = @ \cup records[pos].topics]
C28_OnlyStrictlyMoreCompleteReplaces == [][C28_Step]_vars

\* C29: the score by which the merge compares two records is the number of
\* their attributes that are neither null nor the empty string, in the
\* conference merge and in the article merge.
C29_EmptyStringCountsNothing ==
    Comparing =>
        \A record \in {records[pos], Lookup(unique, RecordKey(records[pos]))} :
            Score(record) = IF reconciler = "conference"
                            THEN ConferenceCount(record)
                            ELSE ArticleCount(record)


\* -------------------------------------- properties: task parser, topics
\* The tokens of the name, and what makes a token a stop word: its lower
\* case, without the punctuation around it, is in the stop-word set.
Tokens == Split(task_name.s)
Normal(token) == Strip(LowerCase(token), Punctuation)
IsStopWord(token) == IsCommonWord(Normal(token))
\* A token made of punctuation only: nothing is left of it.
IsPunctuationOnly(token) == Normal(token) = <<>>
\* The maximal runs of consecutive positions in a set of token positions, in
\* order, each joined into a phrase.
RunStarts(kept) == {i \in kept : i - 1 \notin kept}
RunEnd(kept, i) == CHOOSE j \in kept : j >= i /\ (i..j) \subseteq kept /\ j + 1 \notin kept
NthStart(kept, n) ==
    CHOOSE i \in RunStarts(kept) : Cardinality({j \in RunStarts(kept) : j < i}) = n - 1
MaximalRuns(kept) ==
    [n \in 1..Cardinality(RunStarts(kept)) |->
        Join(SubSeq(Tokens, NthStart(kept, n), RunEnd(kept, NthStart(kept, n))))]
\* The positions of the tokens that are not stop words, and of those that
\* are neither stop words nor punctuation only.
NonStopWords == {i \in DOMAIN Tokens : ~IsStopWord(Tokens[i])}
TopicWordPositions == {i \in NonStopWords : ~IsPunctuationOnly(Tokens[i])}
\* parse_todo_item has extracted the topics of a conference or research item
\* from its name: the Parameters text was absent or not JSON.
TopicsExtracted ==
    /\ Parsed
    /\ task_name.k = "text"
    /\ task_type \in {"conference", "research"}
    /\ ~(NameTruthy(params_str) /\ JsonLoads(params_str.s).k # "raise")
ExtractedTopics == [n \in DOMAIN parameters.v[1].value.v |-> parameters.v[1].value.v[n].v]
\* The tokens of all the phrases, one after the other.
RECURSIVE PhraseTokens(_)
PhraseTokens(phrases) ==
    IF phrases = <<>> THEN <<>> ELSE Split(Head(phrases)) \o PhraseTokens(Tail(phrases))
\* The phrases are the maximal runs of the kept positions: no phrase holds a
\* stop word, and the tokens of the phrases are the kept tokens, each once.
PhrasesAreRuns(kept) ==
    /\ ExtractedTopics = MaximalRuns(kept)
    /\ \A n \in DOMAIN PhraseTokens(ExtractedTopics) : ~IsStopWord(PhraseTokens(ExtractedTopics)[n])
    /\ Len(PhraseTokens(ExtractedTopics)) = Cardinality(kept)
    /\ \A i \in kept : \E n \in DOMAIN PhraseTokens(ExtractedTopics) : PhraseTokens(ExtractedTopics)[n] = Tokens[i]

\* C30 as stated: topic extraction returns, in order, exactly the maximal
\* runs of consecutive non-stop-word tokens of the name, so that every token
\* that is not a stop word appears in exactly one phrase.
C30_RunsOfNonStopWords == TopicsExtracted => PhrasesAreRuns(NonStopWords)

\* C30: topic extraction returns, in order, exactly the maximal runs of
\* consecutive tokens that are neither stop words nor made of punctuation
\* only: no returned phrase contains a stop-word token, two runs separated
\* by stop words or punctuation-only tokens are never joined, and every such
\* token appears in exactly one phrase.
C30_RunsOfTopicWords == TopicsExtracted => PhrasesAreRuns(TopicWordPositions)
C30_Witness ==
    /\ TopicsExtracted
    /\ Len(ExtractedTopics) >= 2
    /\ \E i \in DOMAIN Tokens : IsStopWord(Tokens[i])
    /\ \E i \in DOMAIN Tokens : IsPunctuationOnly(Tokens[i])

\* The terms of the fallback, and the fallback's result as the name holds
\* them.
HoldsAI(text) == Contains(LowerCase(text), <<"a", "i">>)
HoldsGame(text) == Contains(LowerCase(text), <<"g", "a", "m", "e">>)
FallbackTopics(text) ==
    (IF HoldsAI(text) THEN <<<<"A", "I">>>> ELSE <<>>)
    \o (IF HoldsGame(text) THEN <<<<"G", "a", "m", "e">>>> ELSE <<>>)
\* The topics were extracted and the loop found no phrase in the name.
NoPhrase == TopicsExtracted /\ TopicWordPositions = {}
\* The names an item can have: no loop finds no phrase in one that holds a
\* term of the fallback.
ItemNames == {name.s : name \in (TaskNames \cup TopicNames) \ {NoName}}
FallbackEmitsForSomeName ==
    \E text \in ItemNames :
        /\ \A i \in DOMAIN Split(text) :
              IsStopWord(Split(text)[i]) \/ IsPunctuationOnly(Split(text)[i])
        /\ FallbackTopics(text) # <<>>

\* C31 as stated: when topic extraction yields no phrase the result is "AI"
\* if the name holds "ai" and/or "Game" if it holds "game", letter case
\* apart, and there are names for which this fallback gives a list that is
\* not empty.
C31_FallbackEmits ==
    /\ NoPhrase => ExtractedTopics = FallbackTopics(task_name.s)
    /\ FallbackEmitsForSomeName

\* C31: when topic extraction yields no phrase, the name holds neither "ai"
\* nor "game", letter case apart, and the result is the empty list: a token
\* that holds one of the terms is itself kept in a phrase, so the fallback
\* never gives a topic.
C31_FallbackNeverEmits ==
    NoPhrase =>
        /\ ~HoldsAI(task_name.s)
        /\ ~HoldsGame(task_name.s)
        /\ ExtractedTopics = <<>>
C31_Witness ==
    /\ NoPhrase
    /\ \E i \in DOMAIN Tokens : IsStopWord(Tokens[i])
    /\ \E i \in DOMAIN Tokens : IsPunctuationOnly(Tokens[i])

\* ------------------------------------ properties: scheduler, across passes
\* The stored task is a Once task without a next run.
OnceWithoutNextRun(id) ==
    /\ ParseTodoItem(id, db[id]).frequency = "Once"
    /\ db[id]["Next Run"] = NoDate
\* A step in which run() loads the list and selects the due tasks, and a step
\* in which run() returns.
PassStarts == pc = "idle" /\ pc' = "loop"
PassReturns == pc = "loop" /\ pc' = "sleep"
SelectedNext(id) == \E j \in DOMAIN due' : due'[j].id = id

\* C33: a Once task with no stored next_run that ends a pass in Error keeps
\* having no next_run, and every later pass selects and executes it again
\* until one pass completes it; once Complete it stays Complete and no
\* later pass selects it.
C33_Step ==
    /\ \A i \in DOMAIN db :
          OnceWithoutNextRun(i) =>
              /\ db'[i]["Next Run"] = NoDate
              /\ StoredStatus(i) = "Complete" => db'[i]["Status"] = "Complete"
    /\ PassStarts =>
          \A i \in DOMAIN db :
              OnceWithoutNextRun(i) =>
                  /\ StoredStatus(i) = "Error" => SelectedNext(i)
                  /\ StoredStatus(i) = "Complete" => ~SelectedNext(i)
    /\ PassReturns =>
          \A j \in DOMAIN due :
              /\ results[j].task_id = due[j].id
              /\ StoredStatus(due[j].id) = results[j].status
C33_ErrorOnceRunsAgain == [][C33_Step]_vars
C33_Witness ==
    /\ PassReturned /\ passes = 2
    /\ \E j \in DOMAIN due :
          /\ due[j].frequency = "Once" /\ due[j].next_run = NoDate
          /\ due[j].status = "Error" /\ due[j].last_run = IsoDate(Day0)
          /\ results[j].status = "Complete"
          /\ OnceWithoutNextRun(due[j].id)

\* The stored task is recurring, and a pass has started it: every status
\* write sets the last run, which no task has before its first execution.
Recurring(id) == ParseTodoItem(id, db[id]).frequency \in RecurringFrequencies
StartedOn(id) == db[id]["Last Run"].d
Started(id) == db[id]["Last Run"].k = "date"
NextRunOf(id) == StartedOn(id) + C7_Days(ParseTodoItem(id, db[id]).frequency)
\* A step in which execute_task moves the current task to In Progress.
TaskStarts == pc = "loop" /\ pc' = "exec"

\* C34: for a recurring task the transition into In Progress already writes
\* next_run = today + offset, before the executor runs; from then on,
\* whether the task completes, fails or the process is stopped while it
\* runs, the stored next_run is the day of the start plus the offset, and no
\* pass that starts before that day selects the task.
C34_Step ==
    /\ (TaskStarts /\ Recurring(due[idx].id)) =>
          /\ db'[due[idx].id]["Status"] = "In Progress"
          /\ db'[due[idx].id]["Next Run"] =
                 IsoDate(now + C7_Days(ParseTodoItem(due[idx].id, db[due[idx].id]).frequency))
    /\ \A i \in DOMAIN db :
          (Started(i) /\ Recurring(i)) =>
              /\ db[i]["Next Run"] = IsoDate(NextRunOf(i))
              /\ db'[i]["Next Run"].k = "date"
              /\ db'[i]["Next Run"].d >= NextRunOf(i)
              /\ (PassStarts /\ now < NextRunOf(i)) => ~SelectedNext(i)
C34_NotReselectedBeforeNextRun == [][C34_Step]_vars
C34_Witness ==
    /\ pc = "loop" /\ passes = 2 /\ now = Day0 + 1
    /\ \E i \in DOMAIN db :
          /\ Recurring(i) /\ Started(i) /\ StartedOn(i) = Day0
          /\ StoredStatus(i) = "In Progress"
          /\ now < NextRunOf(i)
          /\ ~InDue(i)

\* ------------------------------------------ properties: scheduler, run()
\* A step in which the process is stopped: its log is lost with it.
ProcessStops == pc = "exec" /\ pc' = "sleep"
\* The due tasks of the stored list, as get_due_tasks selects them.
DueOfStore == GetDueTasks(GetTasksFromDatabase(db), now)

\* C35: run() returns exactly one result entry per due task, in due-list
\* order, which is the order of the task list; each result comes with
\* exactly one log entry whose result field is the status of the entry; the
\* log only grows across passes.
C35_Step ==
    /\ \A j, k \in DOMAIN due' : j < k => due'[j].id < due'[k].id
    /\ PassStarts => due' = DueOfStore
    /\ (pc' = "sleep" /\ pc # "sleep" /\ ~ProcessStops) =>
          /\ Len(results') = Len(due')
          /\ \A k \in DOMAIN results' : results'[k].task_id = due'[k].id
          /\ pc = "idle" => Len(results') = Len(DueOfStore)
    /\ ~ProcessStops =>
          \/ /\ results' = results \/ results' = <<>>
             /\ log' = log
          \/ /\ Len(results') = Len(results) + 1
             /\ SubSeq(results', 1, Len(results)) = results
             /\ Len(log') = Len(log) + 1
             /\ SubSeq(log', 1, Len(log)) = log
             /\ log'[Len(log')].result = results'[Len(results')].status
C35_OneResultPerDueTask == [][C35_Step]_vars

\* --------------------------------- properties: reconcilers, one per key
\* The identity key of a record: the case-normalized name with the start
\* date for a conference, the case-normalized title for an article.
IdentityKey(record) ==
    IF reconciler = "conference"
    THEN <<Lower(record.name), record.start_date>>
    ELSE <<Lower(record.title), NoDate>>
\* The named input records, the first input record with a key, and the
\* output records with a key.
NamedInput == {i \in DOMAIN records : RecordName(records[i]) # ""}
FirstWithIdentity(key) ==
    CHOOSE i \in NamedInput :
        /\ IdentityKey(records[i]) = key
        /\ \A j \in NamedInput : IdentityKey(records[j]) = key => i <= j
OutputWithIdentity(key) == {o \in DOMAIN unique : IdentityKey(Values(unique)[o]) = key}

\* C36: merge outputs exactly one record per distinct identity key of its
\* input: no two output records share a key, the key of every input record
\* is the key of an output record, and the output is in the order in which
\* the keys first occur in the input.  Stated for the records that have a
\* name.
C36_OneRecordPerIdentityKey ==
    merged =>
        /\ \A o, q \in DOMAIN unique :
              IdentityKey(Values(unique)[o]) = IdentityKey(Values(unique)[q]) => o = q
        /\ \A i \in NamedInput : OutputWithIdentity(IdentityKey(records[i])) # {}
        /\ \A o \in DOMAIN unique :
              \E i \in NamedInput : IdentityKey(records[i]) = IdentityKey(Values(unique)[o])
        /\ \A o, q \in DOMAIN unique :
              o < q => FirstWithIdentity(IdentityKey(Values(unique)[o]))
                          < FirstWithIdentity(IdentityKey(Values(unique)[q]))

\* ------------------------------------- properties: dates, both parsers
\* What the _parse_date of the other collector returns for the text.
OtherParseDate ==
    IF collector = "conference" THEN ArticleParseDate(date_str) ELSE ConferenceParseDate(date_str)

\* C37: the _parse_date of the conference collector and the _parse_date of
\* the article collector agree on every text: both return the same date or
\* both return None.
C37_ParsersAgree ==
    (collector # "none" /\ parsed_date # Unset) => parsed_date = OtherParseDate

\* ------------------------------------------------ properties: Notion API
\* The guard waited before the last call.
Blocked == api.last.sleep_time > 0

\* The quota counter the guard read had reached zero, and the reset time it
\* read had not passed.
QuotaExhausted ==
    /\ api.last.rate_limit_remaining <= 0
    /\ api.last.time < api.last.rate_limit_reset

\* The requests sent are the calls made with a method the client sends, each
\* once and in the order of the calls.
IssuedInOrder ==
    /\ \A i, j \in DOMAIN api.wire : i < j => api.wire[i] < api.wire[j]
    /\ \A i \in DOMAIN api.wire : api.wire[i] \in 1..api.calls
    /\ api.last.method \in Methods =>
          /\ api.last.sent
          /\ api.wire # <<>>
          /\ api.wire[Len(api.wire)] = api.calls

\* C32: the rate-limit guard blocks before a call exactly when the
\* remaining-quota counter has reached zero and the reset time has not
\* passed; the call is issued after the wait, and the calls are issued once
\* each, in the order requested.
C32_ThrottleOnly ==
    api.last.method # "" =>
        /\ Blocked <=> QuotaExhausted
        /\ IssuedInOrder

\* The part of C32 about the calls alone.
C32_CallsIssuedInOrder == api.last.method # "" => IssuedInOrder

\* A call blocked although one request was left of the quota.
C32_BlockedWithQuotaLeft ==
    /\ api.last.method \in Methods
    /\ Blocked
    /\ api.last.rate_limit_remaining = 1
    /\ api.last.sent

\* The last call had to report an error: the status was an error status, the
\* transport failed, or the method is not one the client sends.
MustReportError ==
    \/ api.last.status_code >= ErrorStatus
    \/ api.last.failed
    \/ api.last.method \notin Methods

\* C38: _make_request never raises; for every method, status and transport
\* exception it returns a dictionary, and the dictionary has the key "error"
\* whenever the status is 400 or more, the transport failed or the method is
\* unsupported.
C38_AlwaysADictionary ==
    api.last.method # "" =>
        /\ api.last.result.k = "dict"
        /\ MustReportError => api.last.result.error

\* The part of C38 that does not depend on the body of the response.
C38_NeverRaises ==
    api.last.method # "" =>
        /\ ~IsRaised(api.last.result)
        /\ MustReportError => api.last.result.k = "dict" /\ api.last.result.error

\* A call returned a list.
C38_ReturnedAList ==
    /\ api.last.sent
    /\ api.last.result.k = "list"

\* ------------------------------------------------ properties: pagination
\* The answer is an error, or a page with has_more false or absent, or a page
\* without a cursor.
EndsPaging(response) ==
    /\ response.k = "dict"
    /\ \/ response.error
       \/ response.has_more # "true"
       \/ response.next_cursor = ""

\* The results of the pages among the answers, in the order fetched; an error
\* answer is no page.
RECURSIVE ResultsOfPages(_)
ResultsOfPages(answers) ==
    IF answers = <<>> THEN <<>>
    ELSE ResultsOfPages(SubSeq(answers, 1, Len(answers) - 1))
         \o (IF answers[Len(answers)].k = "dict" /\ ~answers[Len(answers)].error
             THEN answers[Len(answers)].results
             ELSE <<>>)

LastFetched == pager.fetched[Len(pager.fetched)]

\* The function returns on the answer that ends the paging, and what it
\* returns are the results of the pages fetched, in page order; after an error
\* these are the results of the pages before it.
PagerReturnsPages ==
    pager.on =>
        /\ pager.fetched # <<>> /\ EndsPaging(LastFetched) => pager.returned
        /\ pager.returned =>
              /\ pager.all_items = ResultsOfPages(pager.fetched)
              /\ LastFetched.error =>
                    pager.all_items =
                        ResultsOfPages(SubSeq(pager.fetched, 1, Len(pager.fetched) - 1))

\* The call is over: it has returned, or an answer that was no dictionary
\* made it raise.
PagerEnded == pager.returned \/ pager.raised

\* C39: get_all_database_items terminates when the store at last answers with
\* has_more false, a missing cursor or an error; it returns the results of
\* the pages fetched up to that answer, concatenated in page order, and an
\* error on a later page yields the items gathered so far.
C39_PagingTerminates == []PagerReturnsPages /\ <>PagerEnded

\* The third answer was an error, and the items of two pages were returned.
C39_Witness ==
    /\ pager.returned
    /\ Len(pager.fetched) = 3
    /\ LastFetched.error
    /\ pager.fetched[1].results # <<>>
    /\ pager.fetched[2].results # <<>>
    /\ pager.all_items = pager.fetched[1].results \o pager.fetched[2].results
====
